---- MODULE Spec2Model ----
(***************************************************************************)
(* UV-unwrap pipeline of part1_cpp: build_topology (topology.cpp),         *)
(* detect_seams (seam_detection.cpp), extract_islands and unwrap_mesh      *)
(* (unwrap.cpp), lscm_parameterize up to the system it hands to the solver *)
(* and normalize_uvs_to_unit_square (lscm.cpp), pack_uv_islands and        *)
(* compute_quality_metrics (packing.cpp).                                  *)
(*                                                                         *)
(* Indices (vertices, faces, edges, islands) keep the 0-based values of    *)
(* the C++ arrays; a TLA+ sequence holding an array is read at index+1.    *)
(***************************************************************************)
EXTENDS Integers, Sequences, FiniteSets, TLC

VARIABLES mesh, pc, topo, seams, face_island_ids, num_islands, seam_arg,
          face_arg, lscm,
          sys,          \* lscm_parameterize: geometry input and the system A_final x = b
          uvs,          \* the UV array being written (mesh->uvs, or the array given to normalize)
          uvs0,         \* that array as it was when the call started
          params,       \* unwrap_mesh: const UnwrapParams* params
          result_out,   \* unwrap_mesh: UnwrapResult** result_out and the slot it points to
          ret,          \* what the last call returned
          calls,        \* unwrap_mesh: per island, what step 4 did with it
          layout        \* pack_uv_islands: the islands vector after step 3, and the scale

\* the variables of the stages after island extraction
aux == <<sys, uvs, uvs0, params, result_out, ret, calls, layout>>

vars == <<mesh, pc, topo, seams, face_island_ids, num_islands, seam_arg,
          face_arg, lscm, aux>>

(***************************************************************************)
(* Bounds of the explored inputs.                                          *)
(***************************************************************************)
\* vertex indices of the enumerated meshes are 0..NumVerts-1
NumVerts == 3
\* the enumerated meshes have at most MaxFaces triangles
MaxFaces == 2
\* longest band (strip / ring) among the generated meshes
MaxBand == 71
\* largest number of two-triangle "pillow" components among the generated meshes
MaxPillows == 42
\* bands of up to MaxIslFaces triangles are taken with every vertex modulus
MaxIslFaces == 5
\* double pyramids are taken over polygons of up to MaxPyramid sides
MaxPyramid == 12
\* at the cut of the sorted candidate list, tie groups of up to MaxTieGroup
\* candidates are resolved in every possible way
MaxTieGroup == 4

\* the islands given to the assembly of lscm_parameterize have up to
\* MaxSysFaces triangles
MaxSysFaces == 3

\* the arrays given to normalize_uvs_to_unit_square have up to MaxUvVerts vertices
MaxUvVerts == 2

\* the meshes given to pack_uv_islands have up to MaxPackFaces triangles
MaxPackFaces == 3

\* the meshes given to unwrap_mesh have up to MaxUnwrapFaces triangles
MaxUnwrapFaces == 3

\* the winding check rewinds each of the first MaxRewind triangles on its own
MaxRewind == 3

\* a null pointer (mesh, topology, result array)
NULL == [null |-> TRUE]

\* an int array with its length (face_indices, num_faces)
FaceArray(list) == [data |-> list, num_faces |-> Len(list)]

Min(a, b) == IF a < b THEN a ELSE b
Max(a, b) == IF a > b THEN a ELSE b

\* for (i = lo; i <= hi; i++) st = Body(st, i).  The range is split in
\* halves so that the evaluation stays shallow; the comparison of left with
\* itself only forces the first half before the second half starts.
RECURSIVE Loop(_, _, _, _)
Loop(Body(_, _), st, lo, hi) ==
    IF lo > hi THEN st
    ELSE IF lo = hi THEN Body(st, lo)
    ELSE LET mid == (lo + hi) \div 2
             left == Loop(Body, st, lo, mid)
         IN IF left = left THEN Loop(Body, left, mid + 1, hi) ELSE st

\* ascending enumeration of a set of indices below n (iteration of a std::set)
Ascending(S, n) ==
    Loop(LAMBDA arr, x : IF x \in S THEN Append(arr, x) ELSE arr, <<>>, 0, n - 1)

Range(s) == {s[i] : i \in 1..Len(s)}

(***************************************************************************)
(* Meshes.  A mesh is NULL or a record of its vertex count and triangle    *)
(* index array (one triple of vertex indices per triangle).                *)
(***************************************************************************)
MkMesh(nv, tris) ==
    [num_vertices |-> nv, num_triangles |-> Len(tris), triangles |-> tris]

\* triangles over 0..NumVerts-1, degenerate ones included, taken with the
\* smallest index first (both windings; the rotation of a triangle changes
\* neither its edges nor anything the modelled stages read)
TriPool ==
    {t \in (0..NumVerts-1) \X (0..NumVerts-1) \X (0..NumVerts-1) :
        t[1] <= t[2] /\ t[1] <= t[3]}

RECURSIVE TriSeqs(_)
TriSeqs(k) ==
    IF k = 0 THEN {<<>>}
    ELSE LET shorter == TriSeqs(k - 1)
         IN shorter \cup {Append(s, t) : s \in {x \in shorter : Len(x) = k - 1},
                                          t \in TriPool}

SmallMeshes == {MkMesh(NumVerts, s) : s \in TriSeqs(MaxFaces)}

\* k triangles (i, i+1, i+2) with vertex indices taken modulo m and shifted by
\* off: m = k+2 is an open strip, m = k >= 5 a closed band (ring) with two
\* boundary loops, k = m = 4 a tetrahedron, smaller m non-manifold
Band(k, m, off) ==
    [i \in 1..k |-> <<off + ((i - 1) % m), off + (i % m), off + ((i + 1) % m)>>]

\* p closed components of two triangles glued along all three edges
Pillows(p) ==
    [i \in 1..(2 * p) |->
        LET b == 3 * ((i - 1) \div 2)
        IN IF i % 2 = 1 THEN <<b, b + 1, b + 2>> ELSE <<b, b + 2, b + 1>>]

\* the unit cube of the test data: V = 8, F = 12, E = 18
Cube ==
    << <<0, 1, 2>>, <<0, 2, 3>>, <<4, 6, 5>>, <<4, 7, 6>>,
       <<0, 4, 5>>, <<0, 5, 1>>, <<1, 5, 6>>, <<1, 6, 2>>,
       <<2, 6, 7>>, <<2, 7, 3>>, <<3, 7, 4>>, <<3, 4, 0>> >>

\* the double pyramid over a k-gon: equator 0..k-1 (each on 4 edges), the
\* apexes k and k+1 (each on k edges); 2k triangles, closed
Bipyramid(k) ==
    [i \in 1..(2 * k) |->
        IF i <= k THEN <<i - 1, i % k, k>>
        ELSE <<(i - k) % k, i - k - 1, k + 1>>]

\* the same without its last triangle: open, three boundary edges
OpenBipyramid(k) == SubSeq(Bipyramid(k), 1, 2 * k - 1)

BandMeshes ==
    {MkMesh(m, Band(k, m, 0)) : k \in 1..MaxIslFaces, m \in 3..(MaxIslFaces + 2)}

FamilyMeshes ==
    BandMeshes
    \cup {MkMesh(k + 2, Band(k, k + 2, 0)) : k \in 1..MaxBand}
    \cup {MkMesh(k, Band(k, k, 0)) : k \in 4..MaxBand}
    \cup {MkMesh(3 * p, Pillows(p)) : p \in 1..MaxPillows}
    \cup {MkMesh(3 * p + 3, Pillows(p) \o Band(1, 3, 3 * p)) : p \in 1..MaxPillows}
    \cup {MkMesh(8, Cube)}
    \cup {MkMesh(k + 2, Bipyramid(k)) : k \in 3..MaxPyramid}
    \cup {MkMesh(k + 2, OpenBipyramid(k)) : k \in 3..MaxPyramid}

Meshes == SmallMeshes \cup FamilyMeshes

(***************************************************************************)
(* topology.cpp                                                            *)
(***************************************************************************)
\* faulty variant: the constructor keeps the order the triangle gives
EdgeAsGiven(a, b) == <<a, b>>

\* struct Edge: the constructor stores the smaller vertex first
Edge(a, b) == IF a < b THEN <<a, b>> ELSE <<b, a>>

\* Edge::operator<
EdgeLess(e, other) ==
    IF e[1] # other[1] THEN e[1] < other[1] ELSE e[2] < other[2]

\* struct EdgeInfo, default constructed
EdgeInfo == [face0 |-> -1, face1 |-> -1]

\* std::map<Edge, EdgeInfo> as the sequence of its entries in key order
MapFind(edge_map, e) ==
    LET hits == {i \in 1..Len(edge_map) : edge_map[i].key = e}
    IN IF hits = {} THEN 0 ELSE CHOOSE i \in hits : TRUE

MapInsert(edge_map, e, info) ==
    LET before == Cardinality({i \in 1..Len(edge_map) : EdgeLess(edge_map[i].key, e)})
    IN [i \in 1..(Len(edge_map) + 1) |->
          IF i <= before THEN edge_map[i]
          ELSE IF i = before + 1 THEN [key |-> e, info |-> info]
          ELSE edge_map[i - 1]]

\* faulty variant: an edge met again overwrites its first face
VisitSideFirstFaceLost(edge_map, m, f, i) ==
    LET vs == m.triangles[f + 1]
        a == vs[i + 1]
        b == vs[((i + 1) % 3) + 1]
        e == Edge(a, b)
        at == MapFind(edge_map, e)
    IN IF at = 0
       THEN MapInsert(edge_map, e, [EdgeInfo EXCEPT !.face0 = f])
       ELSE [edge_map EXCEPT ![at].info.face1 = edge_map[at].info.face0,
                             ![at].info.face0 = f]

\* body of the inner loop of build_topology for side i of triangle f
VisitSide(edge_map, m, f, i) ==
    LET vs == m.triangles[f + 1]
        a == vs[i + 1]
        b == vs[((i + 1) % 3) + 1]
        e == Edge(a, b)
        at == MapFind(edge_map, e)
    IN IF at = 0
       THEN MapInsert(edge_map, e, [EdgeInfo EXCEPT !.face0 = f])
       ELSE [edge_map EXCEPT ![at].info.face1 = f]

\* the two nested loops of build_topology, j = 3*f + i
CollectEdges(m) ==
    Loop(LAMBDA edge_map, j : VisitSide(edge_map, m, j \div 3, j % 3),
         <<>>, 0, 3 * m.num_triangles - 1)

build_topology(m) ==
    IF m = NULL THEN NULL
    ELSE LET edge_map == CollectEdges(m)
         IN [num_edges |-> Len(edge_map),
             edges |-> [i \in 1..Len(edge_map) |-> edge_map[i].key],
             edge_faces |-> [i \in 1..Len(edge_map) |->
                               <<edge_map[i].info.face0, edge_map[i].info.face1>>]]

(***************************************************************************)
(* seam_detection.cpp                                                      *)
(***************************************************************************)
\* step 1 of detect_seams, body of the loop over the edges: dual_adj and
\* dual_edge_indices are kept together, one record per pushed neighbour
AddDualEdge(dual_adj, t, e) ==
    LET f0 == t.edge_faces[e + 1][1]
        f1 == t.edge_faces[e + 1][2]
    IN IF f0 # -1 /\ f1 # -1
       THEN LET first == [dual_adj EXCEPT ![f0] = Append(@, [face |-> f1, edge |-> e])]
            IN [first EXCEPT ![f1] = Append(@, [face |-> f0, edge |-> e])]
       ELSE dual_adj

DualGraph(t, F) ==
    Loop(LAMBDA dual_adj, e : AddDualEdge(dual_adj, t, e),
         [f \in 0..(F - 1) |-> <<>>], 0, t.num_edges - 1)

\* faulty variant: the edge to a new neighbour is not recorded
VisitNeighbourRecordsNone(dual_adj, u, st, i) ==
    LET v == dual_adj[u][i + 1].face
    IN IF v \notin st.visited
       THEN [st EXCEPT !.visited = @ \cup {v}, !.q = Append(@, v)]
       ELSE st

\* faulty variant: the edge is recorded whether or not the neighbour is new
VisitNeighbourRecordsAll(dual_adj, u, st, i) ==
    LET v == dual_adj[u][i + 1].face
        edge_idx == dual_adj[u][i + 1].edge
    IN IF v \notin st.visited
       THEN [st EXCEPT !.visited = @ \cup {v},
                       !.tree_edges = @ \cup {edge_idx},
                       !.q = Append(@, v)]
       ELSE [st EXCEPT !.tree_edges = @ \cup {edge_idx}]

\* body of the for loop over dual_adj[u] of the breadth-first traversal
VisitNeighbour(dual_adj, u, st, i) ==
    LET v == dual_adj[u][i + 1].face
        edge_idx == dual_adj[u][i + 1].edge
    IN IF v \notin st.visited
       THEN [st EXCEPT !.visited = @ \cup {v},
                       !.tree_edges = @ \cup {edge_idx},
                       !.q = Append(@, v)]
       ELSE st

\* one step of step 2 of detect_seams: an iteration of while (!q.empty()),
\* or, the queue being empty, of for (start_node ...)
BfsStep(dual_adj, F, st) ==
    IF st.q # <<>>
    THEN LET u == Head(st.q)
         IN Loop(LAMBDA s, i : VisitNeighbour(dual_adj, u, s, i),
                 [st EXCEPT !.q = Tail(@)], 0, Len(dual_adj[u]) - 1)
    ELSE IF st.start_node >= F THEN st
    ELSE IF st.start_node \in st.visited
         THEN [st EXCEPT !.start_node = @ + 1]
         ELSE [st EXCEPT !.q = <<st.start_node>>,
                         !.visited = @ \cup {st.start_node}]

\* the traversal runs to its end: every face is pushed once, popped once and
\* passed once by start_node
TreeEdges(m, t) ==
    LET F == m.num_triangles
        dual_adj == DualGraph(t, F)
    IN Loop(LAMBDA st, i : BfsStep(dual_adj, F, st),
            [visited |-> {}, tree_edges |-> {}, q |-> <<>>, start_node |-> 0],
            1, 3 * F).tree_edges

\* step 3: count of edges whose second face is -1
NumBoundaryEdges(t) ==
    Cardinality({e \in 0..(t.num_edges - 1) : t.edge_faces[e + 1][2] = -1})

\* deg0 / deg1: number of topology edges with v as an endpoint
VertexDegree(t, v) ==
    Cardinality({e2 \in 0..(t.num_edges - 1) :
                    t.edges[e2 + 1][1] = v \/ t.edges[e2 + 1][2] = v})

\* faulty variant: the degree of the second endpoint is left out
EdgePriorityFirstEndpoint(t, e) == VertexDegree(t, t.edges[e + 1][1])

\* int priority = deg0 + deg1
EdgePriority(t, e) ==
    VertexDegree(t, t.edges[e + 1][1]) + VertexDegree(t, t.edges[e + 1][2])

\* faulty variant: the open branch forgets the boundary test
NonTreeEdgesWithBoundary(t, tree_edges, is_closed_mesh) ==
    {e \in 0..(t.num_edges - 1) : e \notin tree_edges}

\* the edges pushed to non_tree_edges: closed branch (no boundary test) and
\* open branch (boundary edges left out)
NonTreeEdges(t, tree_edges, is_closed_mesh) ==
    IF is_closed_mesh
    THEN {e \in 0..(t.num_edges - 1) : e \notin tree_edges}
    ELSE {e \in 0..(t.num_edges - 1) :
             t.edge_faces[e + 1][2] # -1 /\ e \notin tree_edges}

\* faulty variant: the small class ends below 20 faces
TargetSeamsSmallBelow20(is_closed_mesh, F, n) ==
    IF is_closed_mesh
    THEN IF F < 20 THEN n
         ELSE IF F <= 70 THEN Min(Max(1, n \div 3), 2)
         ELSE Min(Max(1, n \div 14), 5)
    ELSE Min(Max(1, n \div 3), 2)

\* faulty variant: the open branch is not capped at 2
TargetSeamsOpenUncapped(is_closed_mesh, F, n) ==
    IF is_closed_mesh
    THEN IF F <= 20 THEN n
         ELSE IF F <= 70 THEN Min(Max(1, n \div 3), 2)
         ELSE Min(Max(1, n \div 14), 5)
    ELSE Max(1, n \div 3)

\* faulty variant: large closed meshes keep every candidate, like small ones
TargetSeamsLargeKeepsAll(is_closed_mesh, F, n) ==
    IF is_closed_mesh
    THEN IF F <= 20 THEN n
         ELSE IF F <= 70 THEN Min(Max(1, n \div 3), 2)
         ELSE n
    ELSE Min(Max(1, n \div 3), 2)

\* target_seams of both branches
TargetSeams(is_closed_mesh, F, n) ==
    IF is_closed_mesh
    THEN IF F <= 20 THEN n
         ELSE IF F <= 70 THEN Min(Max(1, n \div 3), 2)
         ELSE Min(Max(1, n \div 14), 5)
    ELSE Min(Max(1, n \div 3), 2)

\* std::sort by ascending priority followed by the insertion of the first k
\* entries: the sets a sorted order can put in front.  std::sort leaves the
\* order of equal priorities unspecified: every way of cutting the tie group
\* is taken when that group has at most MaxTieGroup members, otherwise the
\* lowest and the highest edge indices of the group.
SortedPrefixes(t, cands, k) ==
    IF k = 0 THEN {{}}
    ELSE LET prio == [e \in cands |-> EdgePriority(t, e)]
             cut == CHOOSE p \in {prio[e] : e \in cands} :
                        /\ Cardinality({e \in cands : prio[e] < p}) < k
                        /\ Cardinality({e \in cands : prio[e] <= p}) >= k
             lower == {e \in cands : prio[e] < cut}
             ties == {e \in cands : prio[e] = cut}
             j == k - Cardinality(lower)
             ordered == Ascending(ties, t.num_edges)
         IN IF j = Cardinality(ties) THEN {lower \cup ties}
            ELSE IF Cardinality(ties) <= MaxTieGroup
            THEN {lower \cup T : T \in {X \in SUBSET ties : Cardinality(X) = j}}
            ELSE {lower \cup {ordered[i] : i \in 1..j},
                  lower \cup {ordered[i] : i \in (Len(ordered) - j + 1)..Len(ordered)}}

\* the possible contents of seam_candidates at the end of detect_seams
SeamCandidates(m, t) ==
    LET F == m.num_triangles
        tree_edges == TreeEdges(m, t)
        is_closed_mesh == (NumBoundaryEdges(t) = 0)
        non_tree_edges == NonTreeEdges(t, tree_edges, is_closed_mesh)
        n == Cardinality(non_tree_edges)
        target_seams == TargetSeams(is_closed_mesh, F, n)
    IN SortedPrefixes(t, non_tree_edges, Min(target_seams, n))

\* the results the call can give: NULL for a null mesh or topology (the
\* null count pointer is the caller's part of the same test); otherwise
\* step 5, the output array, seam_candidates in ascending order
detect_seams(m, t) ==
    IF m = NULL \/ t = NULL THEN {NULL}
    ELSE {Ascending(seam_candidates, t.num_edges) :
             seam_candidates \in SeamCandidates(m, t)}

(***************************************************************************)
(* unwrap.cpp: extract_islands                                             *)
(***************************************************************************)
\* faulty variant: seam edges are not skipped
AddAdjacencyThroughSeams(adj, t, seam_set, e) ==
    LET f0 == t.edge_faces[e + 1][1]
        f1 == t.edge_faces[e + 1][2]
    IN IF f0 # -1 /\ f1 # -1
       THEN LET first == [adj EXCEPT ![f0] = Append(@, f1)]
            IN [first EXCEPT ![f1] = Append(@, f0)]
       ELSE adj

\* step 2, body of the loop over the edges: face adjacency through interior
\* edges that are not seams
AddAdjacency(adj, t, seam_set, e) ==
    IF e \in seam_set THEN adj
    ELSE LET f0 == t.edge_faces[e + 1][1]
             f1 == t.edge_faces[e + 1][2]
         IN IF f0 # -1 /\ f1 # -1
            THEN LET first == [adj EXCEPT ![f0] = Append(@, f1)]
                 IN [first EXCEPT ![f1] = Append(@, f0)]
            ELSE adj

FaceAdjacency(t, F, seam_set) ==
    Loop(LAMBDA adj, e : AddAdjacency(adj, t, seam_set, e),
         [f \in 0..(F - 1) |-> <<>>], 0, t.num_edges - 1)

\* body of for (int v : adj[u])
LabelNeighbour(adj, u, st, i) ==
    LET v == adj[u][i + 1]
    IN IF st.ids[v + 1] = -1
       THEN [st EXCEPT !.ids[v + 1] = st.current_island_id, !.q = Append(@, v)]
       ELSE st

\* faulty variant: current_island_id is not incremented when an island is complete
IslandStepSameId(adj, F, st) ==
    IF st.flooding
    THEN IF st.head < Len(st.q)
         THEN LET u == st.q[st.head + 1]
              IN Loop(LAMBDA s, i : LabelNeighbour(adj, u, s, i),
                      [st EXCEPT !.head = @ + 1], 0, Len(adj[u]) - 1)
         ELSE [st EXCEPT !.flooding = FALSE, !.start_face = @ + 1]
    ELSE IF st.start_face >= F THEN st
    ELSE IF st.ids[st.start_face + 1] # -1
         THEN [st EXCEPT !.start_face = @ + 1]
         ELSE [st EXCEPT !.ids[st.start_face + 1] = st.current_island_id,
                         !.q = <<st.start_face>>, !.head = 0, !.flooding = TRUE]

\* one step of step 3: an iteration of while (head < q.size()); at its end
\* current_island_id++; otherwise an iteration of for (start_face ...)
IslandStep(adj, F, st) ==
    IF st.flooding
    THEN IF st.head < Len(st.q)
         THEN LET u == st.q[st.head + 1]
              IN Loop(LAMBDA s, i : LabelNeighbour(adj, u, s, i),
                      [st EXCEPT !.head = @ + 1], 0, Len(adj[u]) - 1)
         ELSE [st EXCEPT !.flooding = FALSE, !.current_island_id = @ + 1,
                         !.start_face = @ + 1]
    ELSE IF st.start_face >= F THEN st
    ELSE IF st.ids[st.start_face + 1] # -1
         THEN [st EXCEPT !.start_face = @ + 1]
         ELSE [st EXCEPT !.ids[st.start_face + 1] = st.current_island_id,
                         !.q = <<st.start_face>>, !.head = 0, !.flooding = TRUE]

\* the labelling runs to its end: every face is passed once by start_face and
\* popped once, and every island is opened once and closed once
extract_islands(m, t, seam_edges) ==
    LET F == m.num_triangles
        seam_set == Range(seam_edges)
        adj == FaceAdjacency(t, F, seam_set)
        end == Loop(LAMBDA st, i : IslandStep(adj, F, st),
                    [ids |-> [f \in 1..F |-> -1], q |-> <<>>, head |-> 0,
                     start_face |-> 0, current_island_id |-> 0, flooding |-> FALSE],
                    1, 3 * F)
    IN [face_island_ids |-> end.ids, num_islands |-> end.current_island_id]

(***************************************************************************)
(* lscm.cpp: lscm_parameterize up to its size check                        *)
(***************************************************************************)
\* faulty variant: a vertex met again gets a new local index
MapVertexAgain(maps, m, face_indices, j) ==
    LET f == face_indices.data[(j \div 3) + 1]
        v_global == m.triangles[f + 1][(j % 3) + 1]
    IN [global_to_local |->
            (v_global :> Len(maps.local_to_global)) @@ maps.global_to_local,
        local_to_global |-> Append(maps.local_to_global, v_global)]

\* step 1, body of the two nested loops, j = 3*i + corner: global_to_local
\* (a std::map, here a function on the vertices met so far) and local_to_global
MapVertex(maps, m, face_indices, j) ==
    LET f == face_indices.data[(j \div 3) + 1]
        v_global == m.triangles[f + 1][(j % 3) + 1]
    IN IF v_global \notin DOMAIN maps.global_to_local
       THEN [global_to_local |->
                 maps.global_to_local @@ (v_global :> Len(maps.local_to_global)),
             local_to_global |-> Append(maps.local_to_global, v_global)]
       ELSE maps

LocalIndexing(m, face_indices) ==
    Loop(LAMBDA maps, j : MapVertex(maps, m, face_indices, j),
         [global_to_local |-> <<>>, local_to_global |-> <<>>],
         0, 3 * face_indices.num_faces - 1)

\* the argument check, step 1 and the size check; "size_ok" is the point where
\* the function goes on to assembly and solve
\* the pair (face_indices, num_faces) is NULL or an array with its length
lscm_parameterize(m, face_indices) ==
    IF m = NULL \/ face_indices = NULL \/ face_indices.num_faces = 0
    THEN [status |-> "invalid_args", n |-> 0, local_to_global |-> <<>>]
    ELSE LET maps == LocalIndexing(m, face_indices)
             n == Len(maps.local_to_global)
         IN IF n < 3
            THEN [status |-> "too_small", n |-> n,
                  local_to_global |-> maps.local_to_global]
            ELSE [status |-> "size_ok", n |-> n,
                  local_to_global |-> maps.local_to_global]

(***************************************************************************)
(* lscm.cpp: lscm_parameterize from assembly to the constrained system.    *)
(* The vertex positions are input of the call; what the code reads of them *)
(* is, per listed triangle, whether its area is below 1e-8 (the triangle   *)
(* is skipped), and which vertices are farthest apart.  The entries of M   *)
(* and A are kept as positions: a stored entry of A that is not replaced   *)
(* keeps whatever value the geometry gave it ("A").                        *)
(***************************************************************************)
\* the side j -> j+1 of the triangle at list position i (0-based), a <= b
BoundarySide(m, face_indices, i, j) ==
    LET tri == m.triangles[face_indices.data[i + 1] + 1]
        a == tri[j + 1]
        b == tri[((j + 1) % 3) + 1]
    IN IF a > b THEN <<b, a>> ELSE <<a, b>>

\* the vertices of the edges met exactly once, ascending; empty for null
\* arguments (the function returns 0)
find_boundary_vertices(m, face_indices) ==
    IF m = NULL \/ face_indices = NULL THEN <<>>
    ELSE IF face_indices.num_faces = 0 THEN <<>>
    ELSE LET slots == (0..(face_indices.num_faces - 1)) \X (0..2)
             edge_counts == [e \in {BoundarySide(m, face_indices, s[1], s[2]) : s \in slots} |->
                                Cardinality({s \in slots :
                                    BoundarySide(m, face_indices, s[1], s[2]) = e})]
             boundary_verts == UNION {{e[1], e[2]} :
                                   e \in {x \in DOMAIN edge_counts : edge_counts[x] = 1}}
         IN Ascending(boundary_verts, m.num_vertices)

\* vertex positions the meshes are given
PointPool == {<<0, 0, 0>>, <<1, 0, 0>>, <<0, 2, 0>>}

\* vec3_length(vec3_sub(p1, p2)), kept as its square: the code only
\* compares lengths, and the square root does not change their order
Distance2(p1, p2) ==
    (p1[1] - p2[1]) * (p1[1] - p2[1]) + (p1[2] - p2[2]) * (p1[2] - p2[2])
        + (p1[3] - p2[3]) * (p1[3] - p2[3])

\* faulty variant: the comparison of the distances is reversed
CloserBoundaryPair(st, maps, position, boundary_verts, j) ==
    LET num_boundary == Len(boundary_verts)
        i == j \div num_boundary
        k == j % num_boundary
    IN IF k <= i THEN st
       ELSE LET d == Distance2(position[boundary_verts[i + 1]], position[boundary_verts[k + 1]])
            IN IF d < st.max_dist
               THEN [max_dist |-> d,
                     pinned_idx1 |-> maps.global_to_local[boundary_verts[i + 1]],
                     pinned_idx2 |-> maps.global_to_local[boundary_verts[k + 1]]]
               ELSE st

\* body of the two loops over the boundary vertices, j = i * num_boundary + k
\* (the inner loop runs over k > i)
FartherBoundaryPair(st, maps, position, boundary_verts, j) ==
    LET num_boundary == Len(boundary_verts)
        i == j \div num_boundary
        k == j % num_boundary
    IN IF k <= i THEN st
       ELSE LET d == Distance2(position[boundary_verts[i + 1]], position[boundary_verts[k + 1]])
            IN IF d > st.max_dist
               THEN [max_dist |-> d,
                     pinned_idx1 |-> maps.global_to_local[boundary_verts[i + 1]],
                     pinned_idx2 |-> maps.global_to_local[boundary_verts[k + 1]]]
               ELSE st

\* body of the loop of the branch without boundary
FartherFromFirst(st, maps, position, i) ==
    LET d == Distance2(position[maps.local_to_global[st.pinned_idx1 + 1]],
                       position[maps.local_to_global[i + 1]])
    IN IF d > st.max_dist THEN [st EXCEPT !.max_dist = d, !.pinned_idx2 = i] ELSE st

\* if (num_boundary > 200)
BoundaryCap == 200

\* step 3: the pair (pinned_idx1, pinned_idx2) for the vertex positions given
PinnedPair(m, face_indices, maps, position) ==
    LET n == Len(maps.local_to_global)
        boundary_verts == find_boundary_vertices(m, face_indices)
        num_boundary == Len(boundary_verts)
        start == [max_dist |-> -1, pinned_idx1 |-> 0, pinned_idx2 |-> n - 1]
    IN IF num_boundary >= 2
       THEN LET farthest == Loop(LAMBDA st, j : FartherBoundaryPair(st, maps, position,
                                                                    boundary_verts, j),
                                 start, 0, num_boundary * num_boundary - 1)
            IN IF num_boundary > BoundaryCap
               THEN <<maps.global_to_local[boundary_verts[1]],
                      maps.global_to_local[boundary_verts[(num_boundary \div 2) + 1]]>>
               ELSE <<farthest.pinned_idx1, farthest.pinned_idx2>>
       ELSE LET farthest == Loop(LAMBDA st, i : FartherFromFirst(st, maps, position, i),
                                 start, 1, n - 1)
            IN <<farthest.pinned_idx1, farthest.pinned_idx2>>

\* step 2: the positions (row, column) of the triplets pushed for M; list
\* position i gives rows 2i and 2i+1 unless the triangle is skipped
TripletsOfM(m, face_indices, maps, skipped) ==
    UNION {
        LET tri == m.triangles[face_indices.data[i + 1] + 1]
            cols == UNION {{2 * maps.global_to_local[tri[k]],
                            2 * maps.global_to_local[tri[k]] + 1} : k \in 1..3}
        IN {2 * i, 2 * i + 1} \X cols
        : i \in (0..(face_indices.num_faces - 1)) \ skipped}

\* A = M^T * M: an entry (r, c) is stored when some row of M has both columns
NormalMatrix(M) ==
    UNION {LET cols == {e[2] : e \in {x \in M : x[1] = r}}
           IN cols \X cols : r \in {e[1] : e \in M}}

\* the loop that fills A_triplets from the stored entries of A
FinalTriplets(A, pinned_vars) ==
    {<<e[1], e[2], "1">> : e \in {x \in A : (x[1] \in Range(pinned_vars)
                                            \/ x[2] \in Range(pinned_vars))
                                           /\ x[1] = x[2]}}
    \cup {<<e[1], e[2], "A">> : e \in {x \in A : x[1] \notin Range(pinned_vars)
                                              /\ x[2] \notin Range(pinned_vars)}}

\* the right-hand side: zero, minus the stored entries of the columns whose
\* pinned value is not 0 ("-A"), then the pinned values themselves
RightHandSide(A, n, pinned_vars, pinned_vals) ==
    [r \in 0..(2 * n - 1) |->
        IF \E k \in 1..4 : pinned_vars[k] = r
        THEN pinned_vals[CHOOSE k \in 1..4 :
                            /\ pinned_vars[k] = r
                            /\ \A k2 \in (k + 1)..4 : pinned_vars[k2] # r]
        ELSE IF \E k \in 1..4 : pinned_vals[k] # "0" /\ <<r, pinned_vars[k]>> \in A
             THEN "-A"
             ELSE "0"]

\* lscm_parameterize up to A_final.setFromTriplets: skipped is the set of
\* list positions whose triangle has area below 1e-8, position the vertex
\* positions of the mesh
ConstrainedSystem(m, face_indices, skipped, position) ==
    LET maps == LocalIndexing(m, face_indices)
        n == Len(maps.local_to_global)
        A == NormalMatrix(TripletsOfM(m, face_indices, maps, skipped))
        pins == PinnedPair(m, face_indices, maps, position)
        pinned_vars == <<pins[1] * 2, pins[1] * 2 + 1, pins[2] * 2, pins[2] * 2 + 1>>
        pinned_vals == <<"0", "0", "1", "0">>
    IN [n |-> n,
        global_to_local |-> maps.global_to_local,
        local_to_global |-> maps.local_to_global,
        position |-> position,
        skipped |-> skipped,
        pinned_idx1 |-> pins[1],
        pinned_idx2 |-> pins[2],
        pinned_vars |-> pinned_vars,
        pinned_vals |-> pinned_vals,
        A |-> A,
        A_final |-> FinalTriplets(A, pinned_vars),
        b |-> RightHandSide(A, n, pinned_vars, pinned_vals)]

(***************************************************************************)
(* float values.  Coordinates, margins and scales are modelled as exact    *)
(* rationals <<numerator, denominator>> in lowest terms with a positive    *)
(* denominator: the arithmetic of the code without rounding.               *)
(***************************************************************************)
RECURSIVE GCD(_, _)
GCD(a, b) == IF b = 0 THEN a ELSE GCD(b, a % b)

Abs(x) == IF x < 0 THEN -x ELSE x

Rat(num, den) ==
    LET g == GCD(Abs(num), Abs(den))
    IN IF den < 0 THEN <<(-num) \div g, (-den) \div g>> ELSE <<num \div g, den \div g>>

ZERO == Rat(0, 1)
ONE == Rat(1, 1)

RAdd(a, b) ==
    LET g == GCD(a[2], b[2])
    IN Rat(a[1] * (b[2] \div g) + b[1] * (a[2] \div g), (a[2] \div g) * b[2])

RSub(a, b) == RAdd(a, <<-b[1], b[2]>>)

RMul(a, b) ==
    LET g1 == GCD(Abs(a[1]), b[2])
        g2 == GCD(Abs(b[1]), a[2])
    IN Rat((a[1] \div g1) * (b[1] \div g2), (a[2] \div g2) * (b[2] \div g1))

\* a / b for b # 0
RDiv(a, b) == RMul(a, IF b[1] < 0 THEN <<-b[2], -b[1]>> ELSE <<b[2], b[1]>>)

\* a < b, compared through the integer parts and then the remainders, so
\* that no product of two large numbers is formed
RECURSIVE RLess(_, _)
RLess(a, b) ==
    LET fa == a[1] \div a[2]
        fb == b[1] \div b[2]
        ra == a[1] - fa * a[2]
        rb == b[1] - fb * b[2]
    IN IF fa # fb THEN fa < fb
       ELSE IF ra = 0 THEN rb > 0
       ELSE IF rb = 0 THEN FALSE
       ELSE RLess(<<b[2], rb>>, <<a[2], ra>>)

RLeq(a, b) == ~RLess(b, a)

min_float(a, b) == IF RLess(a, b) THEN a ELSE b
max_float(a, b) == IF RLess(b, a) THEN a ELSE b

\* stands for FLT_MAX: above every coordinate of the explored inputs
FLT_MAX == <<2147483647, 1>>
NEG_FLT_MAX == <<-2147483647, 1>>

\* 1e-6f
EPSILON == <<1, 1000000>>

\* a float array of num_verts (u, v) pairs: NULL or the sequence of pairs
UvArray(list) == [uv |-> list]

(***************************************************************************)
(* lscm.cpp: normalize_uvs_to_unit_square                                  *)
(***************************************************************************)
\* the bounding box loop
BoundingBox(list) ==
    Loop(LAMBDA box, i :
             [min_u |-> min_float(box.min_u, list[i][1]),
              max_u |-> max_float(box.max_u, list[i][1]),
              min_v |-> min_float(box.min_v, list[i][2]),
              max_v |-> max_float(box.max_v, list[i][2])],
         [min_u |-> FLT_MAX, max_u |-> NEG_FLT_MAX,
          min_v |-> FLT_MAX, max_v |-> NEG_FLT_MAX],
         1, Len(list))

\* faulty variant: a range below the epsilon is replaced by the epsilon
ClampRangeToEpsilon(range) == IF RLess(range, EPSILON) THEN EPSILON ELSE range

\* if (u_range < 1e-6f) u_range = 1.0f
ClampRange(range) == IF RLess(range, EPSILON) THEN ONE ELSE range

\* faulty variant: each axis is scaled by its own range
NormalizePerAxis(array) ==
    IF array = NULL THEN array
    ELSE IF Len(array.uv) = 0 THEN array
    ELSE LET box == BoundingBox(array.uv)
             u_range == ClampRange(RSub(box.max_u, box.min_u))
             v_range == ClampRange(RSub(box.max_v, box.min_v))
         IN UvArray([i \in 1..Len(array.uv) |->
                       <<RMul(RSub(array.uv[i][1], box.min_u), RDiv(ONE, u_range)),
                         RMul(RSub(array.uv[i][2], box.min_v), RDiv(ONE, v_range))>>])

normalize_uvs_to_unit_square(array) ==
    IF array = NULL THEN array
    ELSE IF Len(array.uv) = 0 THEN array
    ELSE LET box == BoundingBox(array.uv)
             u_range == ClampRange(RSub(box.max_u, box.min_u))
             v_range == ClampRange(RSub(box.max_v, box.min_v))
             scale == RDiv(ONE, max_float(u_range, v_range))
         IN UvArray([i \in 1..Len(array.uv) |->
                       <<RMul(RSub(array.uv[i][1], box.min_u), scale),
                         RMul(RSub(array.uv[i][2], box.min_v), scale)>>])

(***************************************************************************)
(* packing.cpp: pack_uv_islands.  result is NULL or the record of          *)
(* num_islands and face_island_ids; the UV array holds one (u, v) pair per *)
(* vertex.                                                                 *)
(***************************************************************************)
\* an element of the islands vector after its initialisation
NewIsland(i) ==
    [id |-> i, min_u |-> FLT_MAX, max_u |-> NEG_FLT_MAX,
     min_v |-> FLT_MAX, max_v |-> NEG_FLT_MAX,
     width |-> ZERO, height |-> ZERO, vertex_indices |-> <<>>,
     placed |-> FALSE, shelf |-> 0, target_x |-> ZERO, target_y |-> ZERO]

\* step 1, body of the two nested loops, j = 3*f + corner
CollectVertex(st, m, result, array, j) ==
    LET f == j \div 3
        island_id == result.face_island_ids[f + 1]
        v == m.triangles[f + 1][(j % 3) + 1]
    IN IF island_id < 0 \/ island_id >= result.num_islands THEN st
       ELSE IF st.vert_to_island[v + 1] # -1 THEN st
       ELSE LET island == st.islands[island_id + 1]
                u == array.uv[v + 1][1]
                v_coord == array.uv[v + 1][2]
            IN [vert_to_island |-> [st.vert_to_island EXCEPT ![v + 1] = island_id],
                islands |-> [st.islands EXCEPT ![island_id + 1] =
                    [island EXCEPT !.vertex_indices = Append(@, v),
                                   !.min_u = min_float(@, u),
                                   !.max_u = max_float(@, u),
                                   !.min_v = min_float(@, v_coord),
                                   !.max_v = max_float(@, v_coord)]]]

\* the loop "Normalize dimensions"
Dimensions(isl) ==
    IF isl.min_u = FLT_MAX THEN [isl EXCEPT !.width = ZERO, !.height = ZERO]
    ELSE [isl EXCEPT !.width = RSub(isl.max_u, isl.min_u),
                     !.height = RSub(isl.max_v, isl.min_v)]

\* the islands vector before the sort
MeasuredIslands(m, result, array) ==
    LET st == Loop(LAMBDA x, j : CollectVertex(x, m, result, array, j),
                   [vert_to_island |-> [v \in 1..m.num_vertices |-> -1],
                    islands |-> [i \in 1..result.num_islands |-> NewIsland(i - 1)]],
                   0, 3 * m.num_triangles - 1)
    IN [i \in 1..result.num_islands |-> Dimensions(st.islands[i])]

\* step 2: the orders std::sort can leave the vector in: no island comes
\* after one that is strictly lower (equal heights in any order)
SortedByHeight(islands) ==
    LET n == Len(islands)
        orders == {o \in [1..n -> 1..n] :
                      /\ \A i, k \in 1..n : i # k => o[i] # o[k]
                      /\ \A i, k \in 1..n :
                            i < k => ~RLess(islands[o[i]].height, islands[o[k]].height)}
    IN {[i \in 1..n |-> islands[o[i]]] : o \in orders}

\* faulty variant: the shelf is changed without asking whether it holds an island
PlaceIslandOnFreshShelf(st, margin, i) ==
    LET isl == st.islands[i]
        map_width == ONE
        new_shelf == RLess(map_width, RAdd(st.current_x, isl.width))
        x == IF new_shelf THEN ZERO ELSE st.current_x
        y == IF new_shelf THEN RAdd(RAdd(st.current_y, st.shelf_height), margin)
             ELSE st.current_y
        h == IF new_shelf THEN ZERO ELSE st.shelf_height
        shelf == IF new_shelf THEN st.shelf + 1 ELSE st.shelf
    IN IF isl.width = ZERO THEN st
       ELSE [current_x |-> RAdd(RAdd(x, isl.width), margin),
             current_y |-> y,
             shelf_height |-> max_float(h, isl.height),
             shelf |-> shelf,
             packed_max_w |-> max_float(st.packed_max_w, RAdd(x, isl.width)),
             packed_max_h |-> max_float(st.packed_max_h, RAdd(y, isl.height)),
             islands |-> [st.islands EXCEPT ![i] =
                 [isl EXCEPT !.placed = TRUE, !.shelf = shelf,
                             !.target_x = x, !.target_y = y]]]

\* step 3, body of the shelf loop; shelf counts the shelves started so far
\* (the code keeps no such counter: it names the shelf an island is put on)
PlaceIsland(st, margin, i) ==
    LET isl == st.islands[i]
        map_width == ONE
        new_shelf == RLess(map_width, RAdd(st.current_x, isl.width))
                     /\ RLess(ZERO, st.current_x)
        x == IF new_shelf THEN ZERO ELSE st.current_x
        y == IF new_shelf THEN RAdd(RAdd(st.current_y, st.shelf_height), margin)
             ELSE st.current_y
        h == IF new_shelf THEN ZERO ELSE st.shelf_height
        shelf == IF new_shelf THEN st.shelf + 1 ELSE st.shelf
    IN IF isl.width = ZERO THEN st
       ELSE [current_x |-> RAdd(RAdd(x, isl.width), margin),
             current_y |-> y,
             shelf_height |-> max_float(h, isl.height),
             shelf |-> shelf,
             packed_max_w |-> max_float(st.packed_max_w, RAdd(x, isl.width)),
             packed_max_h |-> max_float(st.packed_max_h, RAdd(y, isl.height)),
             islands |-> [st.islands EXCEPT ![i] =
                 [isl EXCEPT !.placed = TRUE, !.shelf = shelf,
                             !.target_x = x, !.target_y = y]]]

ShelfPacking(sorted, margin) ==
    Loop(LAMBDA st, i : PlaceIsland(st, margin, i),
         [current_x |-> ZERO, current_y |-> ZERO, shelf_height |-> ZERO, shelf |-> 0,
          packed_max_w |-> ZERO, packed_max_h |-> ZERO, islands |-> sorted],
         1, Len(sorted))

\* faulty variant: the vertical offset is target_y alone
MoveIslandsKeepingMinV(array, islands) ==
    UvArray([k \in 1..Len(array.uv) |->
        LET owners == {i \in 1..Len(islands) :
                          islands[i].placed /\ (k - 1) \in Range(islands[i].vertex_indices)}
        IN IF owners = {} THEN array.uv[k]
           ELSE LET isl == islands[CHOOSE i \in owners : TRUE]
                IN <<RAdd(array.uv[k][1], RSub(isl.target_x, isl.min_u)),
                     RAdd(array.uv[k][2], isl.target_y)>>])

\* step 4: every vertex of a placed island is moved by the island's offset
MoveIslands(array, islands) ==
    UvArray([k \in 1..Len(array.uv) |->
        LET owners == {i \in 1..Len(islands) :
                          islands[i].placed /\ (k - 1) \in Range(islands[i].vertex_indices)}
        IN IF owners = {} THEN array.uv[k]
           ELSE LET isl == islands[CHOOSE i \in owners : TRUE]
                IN <<RAdd(array.uv[k][1], RSub(isl.target_x, isl.min_u)),
                     RAdd(array.uv[k][2], RSub(isl.target_y, isl.min_v))>>])

\* step 5: scale = 1 / max(packed_max_w, packed_max_h), 1 if nothing was placed
PackScale(packed_max_w, packed_max_h) ==
    IF packed_max_w = ZERO THEN ONE
    ELSE RDiv(ONE, max_float(packed_max_w, packed_max_h))

ScaleAll(array, scale) ==
    UvArray([k \in 1..Len(array.uv) |->
                <<RMul(array.uv[k][1], scale), RMul(array.uv[k][2], scale)>>])

\* faulty variant: only an empty result bypasses the packing
PackBypassEmptyOnly(result) == result.num_islands < 1

\* if (result->num_islands <= 1) return
PackBypass(result) == result.num_islands <= 1

\* what the call did: nothing (argument check or bypass), or the packing
NotPacked(array) == [uvs |-> array, packed |-> FALSE]

\* pack_uv_islands: the outcomes of the call, one per order the sort can give
pack_uv_islands(m, result, margin, array) ==
    IF m = NULL \/ result = NULL \/ array = NULL THEN {NotPacked(array)}
    ELSE IF PackBypass(result) THEN {NotPacked(array)}
    ELSE {LET st == ShelfPacking(sorted, margin)
              scale == PackScale(st.packed_max_w, st.packed_max_h)
          IN [uvs |-> ScaleAll(MoveIslands(array, st.islands), scale),
              packed |-> TRUE,
              islands |-> st.islands,
              packed_max_w |-> st.packed_max_w,
              packed_max_h |-> st.packed_max_h,
              scale |-> scale]
          : sorted \in SortedByHeight(MeasuredIslands(m, result, array))}

(***************************************************************************)
(* packing.cpp: compute_quality_metrics; unwrap.cpp: unwrap_mesh           *)
(***************************************************************************)
\* faulty variant: the reported maximum is a measured value above the thresholds
compute_quality_metrics_measured(m, array, result) ==
    IF m = NULL \/ result = NULL \/ array = NULL THEN result
    ELSE [result EXCEPT !.avg_stretch = ONE, !.max_stretch = Rat(5, 2),
                        !.coverage = Rat(7, 10)]

\* the mesh and its uvs field are the first two arguments
compute_quality_metrics(m, array, result) ==
    IF m = NULL \/ result = NULL \/ array = NULL THEN result
    ELSE [result EXCEPT !.avg_stretch = ONE, !.max_stretch = ONE,
                        !.coverage = Rat(7, 10)]

\* (size_t)x for an int x: x mod 2^64, written <<c, x>> for c * 2^64 + x
SizeT(x) == <<IF x < 0 THEN 1 ELSE 0, x>>

\* a < b on two size_t values (an int operand of at most 31 bits is far
\* below 2^64 - 2^31, the least value a negative int converts to)
SizeLess(a, b) == IF a[1] # b[1] THEN a[1] < b[1] ELSE a[2] < b[2]

\* island_faces.size() < params->min_island_faces: the int is converted to
\* the unsigned type of size()
IslandTooSmall(num_faces, min_island_faces) ==
    SizeLess(SizeT(num_faces), SizeT(min_island_faces))

\* the faces of an island, ascending
IslandFaces(m, ids, island_id) ==
    Ascending({f \in 0..(m.num_triangles - 1) : ids[f + 1] = island_id}, m.num_triangles)

\* the map rebuilt in unwrap_mesh for copying, body of the loops, j = 3*i + corner
MapForCopy(g2l, m, island_faces, j) ==
    LET f == island_faces[(j \div 3) + 1]
        v == m.triangles[f + 1][(j % 3) + 1]
    IN IF v \notin DOMAIN g2l
       THEN g2l @@ (v :> Cardinality(DOMAIN g2l))
       ELSE g2l

IslandGlobalToLocal(m, island_faces) ==
    Loop(LAMBDA g2l, j : MapForCopy(g2l, m, island_faces, j), <<>>,
         0, 3 * Len(island_faces) - 1)

\* faulty variant: the UV is read at the corner number, not at the local index
CopyCornerByPosition(array, m, island_uvs, island_faces, g2l, j) ==
    LET global_f == island_faces[(j \div 3) + 1]
        global_v == m.triangles[global_f + 1][(j % 3) + 1]
    IN IF global_v \in DOMAIN g2l
       THEN UvArray([array.uv EXCEPT ![global_v + 1] = island_uvs.uv[(j % 3) + 1]])
       ELSE array

\* copy_island_uvs, body of the loops, j = 3*local_f + corner
CopyCorner(array, m, island_uvs, island_faces, g2l, j) ==
    LET global_f == island_faces[(j \div 3) + 1]
        global_v == m.triangles[global_f + 1][(j % 3) + 1]
    IN IF global_v \in DOMAIN g2l
       THEN UvArray([array.uv EXCEPT ![global_v + 1] = island_uvs.uv[g2l[global_v] + 1]])
       ELSE array

copy_island_uvs(array, m, island_uvs, island_faces, g2l) ==
    Loop(LAMBDA a, j : CopyCorner(a, m, island_uvs, island_faces, g2l, j), array,
         0, 3 * Len(island_faces) - 1)

\* solutions x the solver can return, as (u, v) per local vertex (local
\* vertex i takes entry i, cyclically); what the solve gives depends on
\* the vertex positions, which are input
RawSolutions ==
    << << <<ZERO, ZERO>>, <<ONE, ZERO>>, <<Rat(1, 2), ONE>>, <<ONE, ONE>> >>,
       << <<ZERO, ZERO>>, <<ONE, ZERO>>, <<Rat(1, 2), Rat(1, 2)>>, <<Rat(1, 4), Rat(1, 4)>> >>,
       << <<ONE, ZERO>>, <<ZERO, ZERO>>, <<Rat(1, 2), Rat(2, 1)>>, <<ONE, Rat(2, 1)>> >> >>

\* what lscm_parameterize returns to unwrap_mesh: NULL at the argument and
\* size checks and when the solver reports failure (outcome 0), otherwise
\* the solution, extracted and normalized
LscmReturn(m, island_faces, outcome) ==
    IF lscm_parameterize(m, FaceArray(island_faces)).status # "size_ok" THEN NULL
    ELSE IF outcome = 0 THEN NULL
    ELSE LET n == lscm_parameterize(m, FaceArray(island_faces)).n
             x == RawSolutions[outcome]
         IN normalize_uvs_to_unit_square(
                UvArray([i \in 1..n |-> x[((i - 1) % Len(x)) + 1]]))

\* step 4, body of the loop over island_id; outcome is what the solver does
\* for this island; calls keeps what lscm_parameterize returned
ParameterizeIsland(st, m, ids, min_island_faces, island_id, outcome) ==
    LET island_faces == IslandFaces(m, ids, island_id)
    IN IF IslandTooSmall(Len(island_faces), min_island_faces)
       THEN [uvs |-> st.uvs,
             calls |-> Append(st.calls, [island_id |-> island_id,
                                         num_faces |-> Len(island_faces),
                                         skipped |-> TRUE, parameterized |-> FALSE,
                                         island_uvs |-> NULL])]
       ELSE LET island_uvs == LscmReturn(m, island_faces, outcome)
            IN IF island_uvs # NULL
               THEN [uvs |-> copy_island_uvs(st.uvs, m, island_uvs, island_faces,
                                             IslandGlobalToLocal(m, island_faces)),
                     calls |-> Append(st.calls, [island_id |-> island_id,
                                                 num_faces |-> Len(island_faces),
                                                 skipped |-> FALSE, parameterized |-> TRUE,
                                                 island_uvs |-> island_uvs])]
               ELSE [uvs |-> st.uvs,
                     calls |-> Append(st.calls, [island_id |-> island_id,
                                                 num_faces |-> Len(island_faces),
                                                 skipped |-> FALSE, parameterized |-> FALSE,
                                                 island_uvs |-> NULL])]

\* calloc(num_vertices * 2, sizeof(float)): zeros; for zero vertices a null
\* pointer or an empty block, as the allocator chooses
ZeroUvs(m) ==
    IF m.num_vertices = 0 THEN {NULL, UvArray(<<>>)}
    ELSE {UvArray([k \in 1..m.num_vertices |-> <<ZERO, ZERO>>])}

\* if (!mesh || !params || !result_out)
InvalidUnwrapArgs(m, p, r) == m = NULL \/ p = NULL \/ r = NULL

\* faulty variant: the failure return clears the caller's slot
FailedUnwrapClearsSlot(r) == IF r = NULL THEN r ELSE [written |-> TRUE, value |-> NULL]

\* the caller's slot *result_out after a return NULL of unwrap_mesh
FailedUnwrap(r) == r

\* values an uninitialised float of the malloc'ed result record can hold
GarbageFloats == {ZERO, ONE, Rat(7, 10), Rat(3, 1)}

(***************************************************************************)
(* The pipeline as unwrap_mesh and the tests drive it: build_topology,     *)
(* detect_seams on its result, extract_islands on the seams.               *)
(***************************************************************************)
\* lscm_parameterize has not been called
NoLscm == [status |-> "not_called", n |-> 0, local_to_global |-> <<>>]

\* nothing of the later stages has run
InitAux ==
    /\ sys = NULL
    /\ uvs = NULL
    /\ uvs0 = NULL
    /\ params = NULL
    /\ result_out = NULL
    /\ ret = NULL
    /\ calls = <<>>
    /\ layout = NULL

Init ==
    /\ mesh \in Meshes \cup {NULL}
    /\ pc = "start"
    /\ topo = NULL
    /\ seams = <<>>
    /\ face_island_ids = <<>>
    /\ num_islands = 0
    /\ seam_arg = <<>>
    /\ face_arg = NULL
    /\ lscm = NoLscm
    /\ InitAux

BuildTopology ==
    /\ pc = "start"
    /\ topo' = build_topology(mesh)
    /\ pc' = IF topo' = NULL THEN "no_topology" ELSE "topology"
    /\ UNCHANGED <<mesh, seams, face_island_ids, num_islands, seam_arg, face_arg, lscm, aux>>

DetectSeams ==
    /\ pc = "topology"
    /\ seams' \in detect_seams(mesh, topo)
    /\ pc' = "seams"
    /\ UNCHANGED <<mesh, topo, face_island_ids, num_islands, seam_arg, face_arg, lscm, aux>>

ExtractIslands ==
    /\ pc = "seams"
    /\ seam_arg' = seams
    /\ LET r == extract_islands(mesh, topo, seams)
       IN /\ face_island_ids' = r.face_island_ids
          /\ num_islands' = r.num_islands
    /\ pc' = "islands"
    /\ UNCHANGED <<mesh, topo, seams, face_arg, lscm, aux>>

Next == BuildTopology \/ DetectSeams \/ ExtractIslands

Spec == Init /\ [][Next]_vars

(***************************************************************************)
(* extract_islands on its own: any set of edge indices as the seam array.  *)
(***************************************************************************)
\* the bands, and the enumerated meshes below the largest size
IslandMeshes == BandMeshes \cup {m \in SmallMeshes : m.num_triangles < MaxFaces}

InitIslands ==
    /\ mesh \in IslandMeshes
    /\ pc = "start"
    /\ topo = NULL
    /\ seams = <<>>
    /\ face_island_ids = <<>>
    /\ num_islands = 0
    /\ seam_arg = <<>>
    /\ face_arg = NULL
    /\ lscm = NoLscm
    /\ InitAux

ExtractIslandsOf ==
    /\ pc = "topology"
    /\ \E seam_set \in SUBSET (0..(topo.num_edges - 1)) :
          /\ seam_arg' = Ascending(seam_set, topo.num_edges)
          /\ LET r == extract_islands(mesh, topo, seam_arg')
             IN /\ face_island_ids' = r.face_island_ids
                /\ num_islands' = r.num_islands
    /\ pc' = "islands"
    /\ UNCHANGED <<mesh, topo, seams, face_arg, lscm, aux>>

NextIslands == BuildTopology \/ ExtractIslandsOf

SpecIslands == InitIslands /\ [][NextIslands]_vars

(***************************************************************************)
(* lscm_parameterize on its own: any ascending list of faces of the mesh   *)
(* (the lists unwrap_mesh builds), the empty list and the null pointers.   *)
(***************************************************************************)
FaceLists(m) ==
    IF m = NULL THEN {FaceArray(<<>>), FaceArray(<<0>>), NULL}
    ELSE {FaceArray(Ascending(S, m.num_triangles)) :
             S \in SUBSET (0..(m.num_triangles - 1))}
         \cup {NULL}

InitLscm ==
    /\ mesh \in IslandMeshes \cup SmallMeshes \cup {NULL}
    /\ pc = "start"
    /\ topo = NULL
    /\ seams = <<>>
    /\ face_island_ids = <<>>
    /\ num_islands = 0
    /\ seam_arg = <<>>
    /\ face_arg = NULL
    /\ lscm = NoLscm
    /\ InitAux

LscmParameterize ==
    /\ pc = "start"
    /\ face_arg' \in FaceLists(mesh)
    /\ lscm' = lscm_parameterize(mesh, face_arg')
    /\ pc' = "lscm_returned"
    /\ UNCHANGED <<mesh, topo, seams, face_island_ids, num_islands, seam_arg, aux>>

NextLscm == LscmParameterize

SpecLscm == InitLscm /\ [][NextLscm]_vars

(***************************************************************************)
(* lscm_parameterize up to the solver call: the island is the whole mesh   *)
(* or any part of it, with any geometry.                                   *)
(***************************************************************************)
SystemMeshes ==
    {MkMesh(m, Band(k, m, 0)) : k \in 1..MaxSysFaces, m \in 3..(MaxSysFaces + 2)}
    \cup {m \in SmallMeshes : m.num_triangles < MaxFaces}

\* strips with as many boundary vertices as the cap of the distance search,
\* and one more
CapMeshes ==
    {MkMesh(k + 2, Band(k, k + 2, 0)) : k \in {BoundaryCap - 2, BoundaryCap - 1}}

\* the vertex positions tried for the vertices V: all over the pool for the
\* small islands, one cycling through the pool for the strips at the cap
Positions(V) ==
    IF Cardinality(V) < BoundaryCap THEN [V -> PointPool]
    ELSE {[v \in V |-> IF v % 3 = 0 THEN <<0, 0, 0>>
                       ELSE IF v % 3 = 1 THEN <<1, 0, 0>> ELSE <<0, 2, 0>>]}

InitSystem ==
    /\ mesh \in SystemMeshes \cup CapMeshes
    /\ pc = "start"
    /\ topo = NULL
    /\ seams = <<>>
    /\ face_island_ids = <<>>
    /\ num_islands = 0
    /\ seam_arg = <<>>
    /\ face_arg = NULL
    /\ lscm = NoLscm
    /\ InitAux

LscmAssemble ==
    /\ pc = "start"
    /\ face_arg' \in IF mesh \in CapMeshes
                     THEN {FaceArray([i \in 1..mesh.num_triangles |-> i - 1])}
                     ELSE FaceLists(mesh)
    /\ lscm' = lscm_parameterize(mesh, face_arg')
    /\ IF lscm'.status = "size_ok"
       THEN /\ \E skipped \in IF mesh \in CapMeshes THEN {{}, {0}}
                              ELSE SUBSET (0..(face_arg'.num_faces - 1)) :
                 \E position \in Positions(Range(lscm'.local_to_global)) :
                     sys' = ConstrainedSystem(mesh, face_arg', skipped, position)
            /\ pc' = "lscm_system"
       ELSE /\ sys' = NULL
            /\ pc' = "lscm_returned"
    /\ UNCHANGED <<mesh, topo, seams, face_island_ids, num_islands, seam_arg,
                   uvs, uvs0, params, result_out, ret, calls, layout>>

NextSystem == LscmAssemble

SpecSystem == InitSystem /\ [][NextSystem]_vars

(***************************************************************************)
(* normalize_uvs_to_unit_square on its own, called twice on the same array.*)
(***************************************************************************)
\* coordinates: negative, zero, below the epsilon, the epsilon, in between,
\* above 1
CoordPool == {Rat(-1, 1), ZERO, Rat(1, 2000000), EPSILON, Rat(1, 2), Rat(3, 1)}

RECURSIVE UvLists(_)
UvLists(k) ==
    IF k = 0 THEN {<<>>}
    ELSE LET shorter == UvLists(k - 1)
         IN shorter \cup {Append(l, pt) : l \in {x \in shorter : Len(x) = k - 1},
                                           pt \in CoordPool \X CoordPool}

InitNormalize ==
    /\ mesh = NULL
    /\ pc = "start"
    /\ topo = NULL
    /\ seams = <<>>
    /\ face_island_ids = <<>>
    /\ num_islands = 0
    /\ seam_arg = <<>>
    /\ face_arg = NULL
    /\ lscm = NoLscm
    /\ sys = NULL
    /\ uvs \in {UvArray(l) : l \in UvLists(MaxUvVerts)} \cup {NULL}
    /\ uvs0 = uvs
    /\ params = NULL
    /\ result_out = NULL
    /\ ret = NULL
    /\ calls = <<>>
    /\ layout = NULL

NormalizeUvs ==
    /\ pc \in {"start", "normalized"}
    /\ uvs0' = uvs
    /\ uvs' = normalize_uvs_to_unit_square(uvs)
    /\ pc' = IF pc = "start" THEN "normalized" ELSE "normalized_twice"
    /\ UNCHANGED <<mesh, topo, seams, face_island_ids, num_islands, seam_arg,
                   face_arg, lscm, sys, params, result_out, ret, calls, layout>>

NextNormalize == NormalizeUvs

SpecNormalize == InitNormalize /\ [][NextNormalize]_vars

(***************************************************************************)
(* pack_uv_islands on its own.  The meshes are separate triangles, or      *)
(* triangles chained through one shared vertex; every triangle is given    *)
(* the UVs of one of a few shapes, in face order (a shared vertex keeps    *)
(* the UV of the last triangle that has it).                               *)
(***************************************************************************)
\* k triangles without a common vertex
Separate(k) == [i \in 1..k |-> <<3 * (i - 1), 3 * (i - 1) + 1, 3 * (i - 1) + 2>>]

\* k triangles, each sharing one vertex (and no edge) with the next
Chain(k) == [i \in 1..k |-> <<2 * (i - 1), 2 * (i - 1) + 1, 2 * (i - 1) + 2>>]

PackMeshes ==
    {MkMesh(3 * k, Separate(k)) : k \in 1..MaxPackFaces}
    \cup {MkMesh(2 * k + 1, Chain(k)) : k \in 2..MaxPackFaces}

\* UVs of the three corners of a triangle: wide, narrow, of zero width, all
\* zero, below the epsilon, not at the origin, one that starts where the
\* zero-width shape ends, and one wider than the unit width
Shapes ==
    { << <<ZERO, ZERO>>, <<ONE, ZERO>>, <<Rat(1, 2), Rat(1, 2)>> >>,
      << <<ZERO, ZERO>>, <<Rat(2, 5), ZERO>>, <<ZERO, ONE>> >>,
      << <<ZERO, ZERO>>, <<ZERO, Rat(1, 2)>>, <<ZERO, ONE>> >>,
      << <<ZERO, ZERO>>, <<ZERO, ZERO>>, <<ZERO, ZERO>> >>,
      << <<ZERO, ZERO>>, <<Rat(1, 2000000), ZERO>>, <<ZERO, Rat(1, 2000000)>> >>,
      << <<Rat(1, 2), Rat(1, 2)>>, <<ONE, Rat(1, 2)>>, <<Rat(1, 2), ONE>> >>,
      << <<ZERO, ONE>>, <<Rat(1, 4), ZERO>>, <<Rat(1, 2), Rat(1, 2)>> >>,
      << <<ZERO, ZERO>>, <<Rat(3, 2), ZERO>>, <<ZERO, Rat(1, 4)>> >> }

\* the UV array in which triangle f has the corners shape_of[f]
ShapedUvs(m, shape_of) ==
    UvArray([k \in 1..m.num_vertices |->
        LET slots == {x \in (1..m.num_triangles) \X (1..3) : m.triangles[x[1]][x[2]] = k - 1}
        IN IF slots = {} THEN <<ZERO, ZERO>>
           ELSE LET last == CHOOSE x \in slots :
                                \A y \in slots : y[1] < x[1] \/ (y[1] = x[1] /\ y[2] <= x[2])
                IN shape_of[last[1]][last[2]]])

\* the UnwrapResult values tried: null, one island per face, fewer islands
\* than faces (none, one, ...), and an id outside [0, num_islands)
PackResults(m) ==
    {NULL}
    \cup {[num_islands |-> n,
           face_island_ids |-> [f \in 1..m.num_triangles |-> IF n = 0 THEN 0 ELSE (f - 1) % n]]
          : n \in 0..m.num_triangles}
    \cup {[num_islands |-> m.num_triangles,
           face_island_ids |-> [f \in 1..m.num_triangles |->
                                   IF f = m.num_triangles THEN -1 ELSE f - 1]]}

Margins == {Rat(-1, 10), ZERO, Rat(1, 10)}

InitPack ==
    /\ mesh \in PackMeshes \cup {NULL}
    /\ pc = "start"
    /\ topo = NULL
    /\ seams = <<>>
    /\ face_island_ids = <<>>
    /\ num_islands = 0
    /\ seam_arg = <<>>
    /\ face_arg = NULL
    /\ lscm = NoLscm
    /\ sys = NULL
    /\ uvs \in IF mesh = NULL THEN {NULL}
               ELSE {ShapedUvs(mesh, shape_of) :
                        shape_of \in [1..mesh.num_triangles -> Shapes]} \cup {NULL}
    /\ uvs0 = uvs
    /\ params = NULL
    /\ result_out = NULL
    /\ ret = NULL
    /\ calls = <<>>
    /\ layout = NULL

\* pack_uv_islands(mesh, result, margin): ret holds the arguments
PackUvIslands ==
    /\ pc = "start"
    /\ \E margin \in Margins :
         \E result \in IF mesh = NULL
                       THEN {NULL, [num_islands |-> 2, face_island_ids |-> <<0, 1>>]}
                       ELSE PackResults(mesh) :
           \E out \in pack_uv_islands(mesh, result, margin, uvs) :
              /\ ret' = [result |-> result, margin |-> margin]
              /\ uvs' = out.uvs
              /\ layout' = out
    /\ pc' = "pack_returned"
    /\ UNCHANGED <<mesh, topo, seams, face_island_ids, num_islands, seam_arg,
                   face_arg, lscm, sys, uvs0, params, result_out, calls>>

NextPack == PackUvIslands

SpecPack == InitPack /\ [][NextPack]_vars

(***************************************************************************)
(* unwrap_mesh, and the entry points called on their own with arguments    *)
(* that may be null.  The meshes: without vertices, without triangles,     *)
(* a closed pair of triangles, two triangles with their vertices in no     *)
(* order, meshes that get seams (tetrahedron, ring, two closed pairs, a    *)
(* closed pair and a triangle, open double pyramid), separate              *)
(* triangles, triangles chained through a vertex, strips, and a triangle   *)
(* touching a strip in one vertex.                                         *)
(***************************************************************************)
UnwrapMeshes ==
    {MkMesh(0, <<>>), MkMesh(3, <<>>), MkMesh(3, Pillows(1)),
     MkMesh(4, << <<3, 1, 2>>, <<1, 0, 2>> >>)}
    \cup {MkMesh(4, Band(4, 4, 0)), MkMesh(5, Band(5, 5, 0)), MkMesh(6, Pillows(2)),
          MkMesh(6, Pillows(1) \o Band(1, 3, 3)), MkMesh(5, OpenBipyramid(3))}
    \cup {MkMesh(3 * k, Separate(k)) : k \in 1..MaxUnwrapFaces}
    \cup {MkMesh(2 * k + 1, Chain(k)) : k \in 2..MaxUnwrapFaces}
    \cup {MkMesh(k + 2, Band(k, k + 2, 0)) : k \in 2..MaxUnwrapFaces}
    \cup {MkMesh(k + 3, << <<0, 1, 2>> >> \o Band(k - 1, k + 1, 2)) : k \in 3..MaxUnwrapFaces}

\* the values of min_island_faces tried
MinIslandFaces == {-1, 0, 1, 2}

\* UnwrapParams (angle_threshold is read by detect_seams only, whose
\* candidates are taken with every outcome of the angle test)
UnwrapParamsPool ==
    {[min_island_faces |-> k, pack_islands |-> FALSE, island_margin |-> ZERO] :
        k \in MinIslandFaces}
    \cup {[min_island_faces |-> k, pack_islands |-> TRUE, island_margin |-> g] :
            k \in MinIslandFaces, g \in {ZERO, Rat(1, 10)}}

InitUnwrap ==
    /\ mesh \in UnwrapMeshes \cup {NULL}
    /\ pc = "start"
    /\ topo = NULL
    /\ seams = <<>>
    /\ face_island_ids = <<>>
    /\ num_islands = 0
    /\ seam_arg = <<>>
    /\ face_arg = NULL
    /\ lscm = NoLscm
    /\ sys = NULL
    /\ uvs \in IF mesh = NULL \/ mesh.num_triangles = 0 THEN {NULL}
               ELSE {NULL, ShapedUvs(mesh, [f \in 1..mesh.num_triangles |->
                                               << <<ZERO, ZERO>>, <<ONE, ZERO>>,
                                                  <<Rat(1, 2), Rat(1, 2)>> >>])}
    /\ uvs0 = uvs
    /\ params \in UnwrapParamsPool \cup {NULL}
    /\ result_out \in {NULL, [written |-> FALSE]}
    /\ ret = NULL
    /\ calls = <<>>
    /\ layout = NULL

\* unwrap_mesh up to step 1: the argument check and build_topology
UnwrapMeshEntry ==
    /\ pc = "start"
    /\ IF InvalidUnwrapArgs(mesh, params, result_out)
       THEN /\ topo' = topo
            /\ result_out' = FailedUnwrap(result_out)
            /\ pc' = "unwrap_returned"
       ELSE /\ topo' = build_topology(mesh)
            /\ result_out' = IF topo' = NULL THEN FailedUnwrap(result_out) ELSE result_out
            /\ pc' = IF topo' = NULL THEN "unwrap_returned" ELSE "topology"
    /\ ret' = NULL
    /\ UNCHANGED <<mesh, seams, face_island_ids, num_islands, seam_arg, face_arg, lscm,
                   sys, uvs, uvs0, params, calls, layout>>

\* step 4: the result mesh with its zeroed UV array, and the loop over the islands
ParameterizeIslands ==
    /\ pc = "islands"
    /\ params # NULL
    /\ \E zero \in ZeroUvs(mesh) :
         \E outcome \in [0..(num_islands - 1) -> 0..Len(RawSolutions)] :
            LET done == Loop(LAMBDA st, island_id :
                                 ParameterizeIsland(st, mesh, face_island_ids,
                                                    params.min_island_faces,
                                                    island_id, outcome[island_id]),
                             [uvs |-> zero, calls |-> <<>>], 0, num_islands - 1)
            IN /\ uvs' = done.uvs
               /\ uvs0' = zero
               /\ calls' = done.calls
    /\ pc' = "parameterized"
    /\ UNCHANGED <<mesh, topo, seams, face_island_ids, num_islands, seam_arg, face_arg,
                   lscm, sys, params, result_out, ret, layout>>

\* step 5
PackIslands ==
    /\ pc = "parameterized"
    /\ IF params.pack_islands
       THEN \E out \in pack_uv_islands(mesh, [num_islands |-> num_islands,
                                              face_island_ids |-> face_island_ids],
                                       params.island_margin, uvs) :
               /\ uvs' = out.uvs
               /\ layout' = out
       ELSE UNCHANGED <<uvs, layout>>
    /\ pc' = "packed"
    /\ UNCHANGED <<mesh, topo, seams, face_island_ids, num_islands, seam_arg, face_arg,
                   lscm, sys, uvs0, params, result_out, ret, calls>>

\* step 6 and the return: the malloc'ed record holds whatever the memory held
UnwrapReturn ==
    /\ pc = "packed"
    /\ \E a \in GarbageFloats, b \in GarbageFloats, c \in GarbageFloats :
         result_out' =
            [written |-> TRUE,
             value |-> compute_quality_metrics(mesh, uvs,
                          [num_islands |-> num_islands,
                           face_island_ids |-> face_island_ids,
                           avg_stretch |-> a, max_stretch |-> b, coverage |-> c])]
    /\ ret' = [mesh |-> mesh, uvs |-> uvs]
    /\ pc' = "unwrap_returned"
    /\ UNCHANGED <<mesh, topo, seams, face_island_ids, num_islands, seam_arg, face_arg,
                   lscm, sys, uvs, uvs0, params, calls, layout>>

\* if (!mesh || !topo || !num_seams_out) of detect_seams
InvalidSeamArgs(m, t, count) == m = NULL \/ t = NULL \/ count = NULL

\* detect_seams(mesh, topo, angle, num_seams_out) called on its own; ret holds
\* the arguments, the returned array and the slot num_seams_out points to
DetectSeamsCall ==
    /\ pc = "start"
    /\ \E t \in {NULL, build_topology(mesh)}, count \in {NULL, [written |-> FALSE]} :
         \E seam_edges \in IF count = NULL THEN {NULL} ELSE detect_seams(mesh, t) :
            ret' = [topo |-> t,
                    count |-> count,
                    seam_edges |-> IF InvalidSeamArgs(mesh, t, count) THEN seam_edges
                                   ELSE [data |-> seam_edges],
                    num_seams_out |-> IF InvalidSeamArgs(mesh, t, count) THEN count
                                      ELSE [written |-> TRUE, value |-> Len(seam_edges)]]
    /\ pc' = "seams_returned"
    /\ UNCHANGED <<mesh, topo, seams, face_island_ids, num_islands, seam_arg, face_arg,
                   lscm, sys, uvs, uvs0, params, result_out, calls, layout>>

NextUnwrap ==
    \/ UnwrapMeshEntry
    \/ DetectSeams
    \/ ExtractIslands
    \/ ParameterizeIslands
    \/ PackIslands
    \/ UnwrapReturn
    \/ DetectSeamsCall
    \/ LscmParameterize
    \/ PackUvIslands

SpecUnwrap == InitUnwrap /\ [][NextUnwrap]_vars

(***************************************************************************)
(* Reference notions the properties are stated with.                       *)
(***************************************************************************)
HasTopology == pc \in {"topology", "seams", "islands"}
AfterSeams == pc \in {"seams", "islands"}

Faces(m) == 0..(m.num_triangles - 1)
EdgeIds(t) == 0..(t.num_edges - 1)

\* the unordered vertex pairs that are sides of triangle f
SidesOf(m, f) ==
    LET tri == m.triangles[f + 1]
    IN {{tri[1], tri[2]}, {tri[2], tri[3]}, {tri[3], tri[1]}}

AllSides(m) == UNION {SidesOf(m, f) : f \in Faces(m)}

\* the triangles that have the unordered pair s as a side
FacesOn(m, s) == {f \in Faces(m) : s \in SidesOf(m, f)}

EndPoints(t, e) == {t.edges[e + 1][1], t.edges[e + 1][2]}

Perms3 == {<<1, 2, 3>>, <<1, 3, 2>>, <<2, 1, 3>>, <<2, 3, 1>>, <<3, 1, 2>>, <<3, 2, 1>>}

Rewind(tri, p) == <<tri[p[1]], tri[p[2]], tri[p[3]]>>

\* the same mesh with the vertices of some triangles written in another order:
\* every triangle by the same permutation, or one of the first MaxRewind alone
Rewindings(m) ==
    {[m EXCEPT !.triangles = [i \in 1..m.num_triangles |-> Rewind(m.triangles[i], p)]] :
        p \in Perms3}
    \cup {[m EXCEPT !.triangles[f + 1] = Rewind(@, p)] :
             f \in 0..(Min(m.num_triangles, MaxRewind) - 1), p \in Perms3}

IsInterior(t, e) == t.edge_faces[e + 1][1] # -1 /\ t.edge_faces[e + 1][2] # -1
InteriorEdges(t) == {e \in EdgeIds(t) : IsInterior(t, e)}
IsClosed(t) == \A e \in EdgeIds(t) : t.edge_faces[e + 1][2] # -1

\* components of the dual graph without the edges in removed, by merging the
\* labels of the two faces of every remaining interior edge
MergeLabels(lab, t, removed, e) ==
    IF e \in removed \/ ~IsInterior(t, e) THEN lab
    ELSE LET a == lab[t.edge_faces[e + 1][1]]
             b == lab[t.edge_faces[e + 1][2]]
         IN IF a = b THEN lab
            ELSE [f \in DOMAIN lab |-> IF lab[f] = Max(a, b) THEN Min(a, b) ELSE lab[f]]

ComponentLabels(m, t, removed) ==
    Loop(LAMBDA lab, e : MergeLabels(lab, t, removed, e),
         [f \in Faces(m) |-> f], 0, t.num_edges - 1)

NumComponents(m, t, removed) ==
    LET lab == ComponentLabels(m, t, removed)
    IN Cardinality({lab[f] : f \in Faces(m)})

\* edges left over by a spanning forest of the dual graph: all of them for a
\* closed mesh, the interior ones for an open mesh
NumNonTree(m, t) ==
    Cardinality(InteriorEdges(t)) - (m.num_triangles - NumComponents(m, t, {}))

(***************************************************************************)
(* C1: the edge list of build_topology holds every unordered vertex pair   *)
(* that is a side of some triangle exactly once, lower index first, and    *)
(* nothing else; it does not depend on the vertex order inside the         *)
(* triangles; the cube has 18 edges and Euler characteristic 2.            *)
(***************************************************************************)
C1_EdgeListIsTheSideSet ==
    pc = "topology" =>
        /\ topo.num_edges = Len(topo.edges)
        /\ topo.num_edges = Cardinality(AllSides(mesh))
        /\ {EndPoints(topo, e) : e \in EdgeIds(topo)} = AllSides(mesh)
        /\ \A e \in EdgeIds(topo) : topo.edges[e + 1][1] <= topo.edges[e + 1][2]
        /\ \A e1, e2 \in EdgeIds(topo) :
              topo.edges[e1 + 1] = topo.edges[e2 + 1] => e1 = e2
        /\ \A w \in Rewindings(mesh) : build_topology(w).edges = topo.edges
        /\ mesh.triangles = Cube =>
              /\ topo.num_edges = 18
              /\ mesh.num_vertices - topo.num_edges + mesh.num_triangles = 2

C1_Witness ==
    /\ pc = "topology"
    /\ mesh.triangles = Cube
    /\ topo.num_edges = 18
    /\ topo.num_edges * 2 = 3 * mesh.num_triangles

(***************************************************************************)
(* C2: when every triangle has three distinct vertices and no edge lies on *)
(* more than two triangles, the first face of an edge is the lowest-index  *)
(* triangle containing it and the second is the other one, or -1 exactly   *)
(* when the edge lies on one triangle only.                                *)
(***************************************************************************)
IsManifoldInput(m) ==
    /\ \A f \in Faces(m) : Cardinality(Range(m.triangles[f + 1])) = 3
    /\ \A s \in AllSides(m) : Cardinality(FacesOn(m, s)) <= 2

C2_IncidentFaces ==
    (pc = "topology" /\ IsManifoldInput(mesh)) =>
        \A e \in EdgeIds(topo) :
            LET on == FacesOn(mesh, EndPoints(topo, e))
                face0 == topo.edge_faces[e + 1][1]
                face1 == topo.edge_faces[e + 1][2]
            IN /\ face0 \in on
               /\ \A f \in on : face0 <= f
               /\ face1 = -1 <=> Cardinality(on) = 1
               /\ face1 # -1 => on = {face0, face1} /\ face1 # face0

C2_Witness ==
    /\ pc = "topology"
    /\ IsManifoldInput(mesh)
    /\ \E e1, e2 \in EdgeIds(topo) :
          /\ topo.edge_faces[e1 + 1][2] = -1
          /\ topo.edge_faces[e2 + 1][2] # -1
          /\ topo.edge_faces[e2 + 1][1] < topo.edge_faces[e2 + 1][2]

(***************************************************************************)
(* C3: build_topology produces no topology when the mesh is null and when  *)
(* the mesh has zero triangles.                                            *)
(***************************************************************************)
IsEmptyOrNull(m) == IF m = NULL THEN TRUE ELSE m.num_triangles = 0

C3_NoTopologyForNullOrEmpty ==
    (pc # "start" /\ IsEmptyOrNull(mesh)) => topo = NULL

(***************************************************************************)
(* C4: every index returned by detect_seams is a topology edge index of an *)
(* interior edge (both incident faces present) and none is returned twice; *)
(* boundary edges are never seams.                                         *)
(***************************************************************************)
C4_SeamsAreDistinctInteriorEdges ==
    AfterSeams =>
        /\ \A i \in 1..Len(seams) :
              /\ seams[i] \in EdgeIds(topo)
              /\ topo.edge_faces[seams[i] + 1][1] # -1
              /\ topo.edge_faces[seams[i] + 1][2] # -1
        /\ \A i, j \in 1..Len(seams) : seams[i] = seams[j] => i = j

C4_Witness ==
    /\ pc = "seams"
    /\ ~IsClosed(topo)
    /\ Len(seams) = 2
    /\ \E e \in EdgeIds(topo) :
          /\ ~IsInterior(topo, e)
          /\ \A i \in 1..Len(seams) : EdgePriority(topo, e) <= EdgePriority(topo, seams[i])

(***************************************************************************)
(* C5: for a closed mesh with F faces and n non-tree edges detect_seams    *)
(* returns n seams when F <= 20, min(n, min(2, max(1, n/3))) when          *)
(* 20 < F <= 70 and min(n, min(5, max(1, n/14))) when F > 70; the cube     *)
(* (12 faces, 18 edges) gets 7 seams.                                      *)
(***************************************************************************)
C5_ClosedSeamCount ==
    (AfterSeams /\ IsClosed(topo)) =>
        LET F == mesh.num_triangles
            n == NumNonTree(mesh, topo)
        IN /\ n = topo.num_edges - Cardinality(TreeEdges(mesh, topo))
           /\ F <= 20 => Len(seams) = n
           /\ (20 < F /\ F <= 70) => Len(seams) = Min(n, Min(2, Max(1, n \div 3)))
           /\ F > 70 => Len(seams) = Min(n, Min(5, Max(1, n \div 14)))
           /\ mesh.triangles = Cube => Len(seams) = 7

C5_Witness ==
    /\ pc = "seams"
    /\ IsClosed(topo)
    /\ mesh.num_triangles > 70
    /\ NumNonTree(mesh, topo) > 70
    /\ Len(seams) = 5

(***************************************************************************)
(* C6: for an open mesh only interior edges outside the spanning tree are  *)
(* eligible, and with n of them detect_seams returns                       *)
(* min(n, min(2, max(1, n/3))) seams: at most 2, at least 1 when n > 0,    *)
(* none when n = 0.                                                        *)
(***************************************************************************)
C6_OpenSeamCount ==
    (AfterSeams /\ ~IsClosed(topo)) =>
        LET n == NumNonTree(mesh, topo)
        IN /\ Range(seams) \subseteq InteriorEdges(topo) \ TreeEdges(mesh, topo)
           /\ n = Cardinality(InteriorEdges(topo) \ TreeEdges(mesh, topo))
           /\ Len(seams) = Min(n, Min(2, Max(1, n \div 3)))
           /\ Len(seams) <= 2
           /\ n > 0 => Len(seams) >= 1
           /\ n = 0 => Len(seams) = 0

C6_Witness ==
    /\ pc = "seams"
    /\ ~IsClosed(topo)
    /\ NumNonTree(mesh, topo) >= 9
    /\ Len(seams) = 2

(***************************************************************************)
(* C7 as stated: for a mesh of more than 70 faces the seam set is never    *)
(* the full set of non-tree interior edges.                                *)
(***************************************************************************)
NonTreeInterior(m, t) == InteriorEdges(t) \ TreeEdges(m, t)

C7_Original_NeverTheFullSet ==
    (AfterSeams /\ mesh.num_triangles > 70) =>
        Range(seams) # NonTreeInterior(mesh, topo)

(***************************************************************************)
(* C7 amended: for a mesh of more than 70 faces the seam set is a subset   *)
(* of the non-tree interior edges; it is a proper subset when there are at *)
(* least two such edges and the whole set when there is none or one.       *)
(***************************************************************************)
C7_ProperSubsetFromTwoCandidates ==
    (AfterSeams /\ mesh.num_triangles > 70) =>
        LET all == NonTreeInterior(mesh, topo)
        IN /\ Range(seams) \subseteq all
           /\ Cardinality(all) >= 2 => Range(seams) # all
           /\ Cardinality(all) <= 1 => Range(seams) = all

C7_Witness ==
    /\ pc = "seams"
    /\ mesh.num_triangles > 70
    /\ Cardinality(NonTreeInterior(mesh, topo)) >= 2
    /\ Len(seams) >= 1
    /\ Range(seams) # NonTreeInterior(mesh, topo)

(***************************************************************************)
(* C8: after extract_islands every face has one island id, the id lies in  *)
(* [0, num_islands), and every id of [0, num_islands) is held by a face.   *)
(***************************************************************************)
C8_IslandsPartitionFaces ==
    pc = "islands" =>
        /\ Len(face_island_ids) = mesh.num_triangles
        /\ \A f \in Faces(mesh) :
              face_island_ids[f + 1] >= 0 /\ face_island_ids[f + 1] < num_islands
        /\ \A id \in 0..(num_islands - 1) :
              \E f \in Faces(mesh) : face_island_ids[f + 1] = id

C8_Witness ==
    /\ pc = "islands"
    /\ num_islands >= 3
    /\ mesh.num_triangles > num_islands
    /\ seam_arg # <<>>

(***************************************************************************)
(* C9: after extract_islands two faces have the same island id exactly     *)
(* when a path of faces joins them in which consecutive faces share an     *)
(* interior edge that is not a seam; with no seam a mesh whose dual graph  *)
(* is connected is one island.                                             *)
(***************************************************************************)
C9_IslandsAreSeamFreeComponents ==
    pc = "islands" =>
        LET lab == ComponentLabels(mesh, topo, Range(seam_arg))
        IN /\ \A f, g \in Faces(mesh) :
                 (face_island_ids[f + 1] = face_island_ids[g + 1]) <=> (lab[f] = lab[g])
           /\ (seam_arg = <<>> /\ NumComponents(mesh, topo, {}) = 1) => num_islands = 1

C9_Witness ==
    /\ pc = "islands"
    /\ \E i \in 1..Len(seam_arg) :
          LET f0 == topo.edge_faces[seam_arg[i] + 1][1]
              f1 == topo.edge_faces[seam_arg[i] + 1][2]
          IN /\ IsInterior(topo, seam_arg[i])
             /\ face_island_ids[f0 + 1] # face_island_ids[f1 + 1]
    /\ \E f, g \in Faces(mesh) :
          f # g /\ face_island_ids[f + 1] = face_island_ids[g + 1]
    /\ NumComponents(mesh, topo, {}) = 1

(***************************************************************************)
(* C10: lscm_parameterize, called with a mesh and a non-empty face list,   *)
(* returns no result at its size check exactly when the listed triangles   *)
(* reference fewer than 3 distinct vertex indices; with exactly 3 (a       *)
(* single triangle) it passes the size check and goes on to assembly.      *)
(***************************************************************************)
\* the vertex indices the listed triangles reference
IslandVertices(m, face_indices) ==
    UNION {Range(m.triangles[face_indices.data[i] + 1]) : i \in 1..face_indices.num_faces}

ValidLscmArgs ==
    IF mesh = NULL \/ face_arg = NULL THEN FALSE ELSE face_arg.num_faces > 0

C10_SizeCheck ==
    (pc = "lscm_returned" /\ ValidLscmArgs) =>
        LET distinct == Cardinality(IslandVertices(mesh, face_arg))
        IN /\ lscm.status = "too_small" <=> distinct < 3
           /\ lscm.status = "size_ok" <=> distinct >= 3
           /\ lscm.n = distinct

C10_Witness ==
    /\ pc = "lscm_returned"
    /\ ValidLscmArgs
    /\ face_arg.num_faces = 1
    /\ Cardinality(IslandVertices(mesh, face_arg)) = 3
    /\ lscm.status = "size_ok"

\* a degenerate island is turned away at the size check
C10_WitnessTooSmall ==
    /\ pc = "lscm_returned"
    /\ ValidLscmArgs
    /\ Cardinality(IslandVertices(mesh, face_arg)) = 2
    /\ lscm.status = "too_small"

(***************************************************************************)
(* C11: in the system lscm_parameterize hands to the solver, each of the 4 *)
(* pinned unknowns has a 1 on the diagonal, nothing else in its row and    *)
(* column, and its target on the right-hand side, for every island that    *)
(* passes the size check, also when a pinned vertex occurs only in skipped *)
(* triangles.                                                              *)
(***************************************************************************)
PinnedRowIsIdentity(k) ==
    LET p == sys.pinned_vars[k]
    IN /\ <<p, p, "1">> \in sys.A_final
       /\ \A e \in sys.A_final : (e[1] = p \/ e[2] = p) => e = <<p, p, "1">>
       /\ sys.b[p] = sys.pinned_vals[k]

C11_PinnedRowsAreIdentity ==
    pc = "lscm_system" => \A k \in 1..4 : PinnedRowIsIdentity(k)

(***************************************************************************)
(* C12: normalize_uvs_to_unit_square is idempotent in exact arithmetic:    *)
(* the second application leaves every coordinate as the first one made    *)
(* it, also when one or both extents are below the epsilon.                *)
(***************************************************************************)
C12_NormalizeIdempotent ==
    pc = "normalized_twice" => uvs = uvs0

\* the extents of an array
ExtentU(array) == LET box == BoundingBox(array.uv) IN RSub(box.max_u, box.min_u)
ExtentV(array) == LET box == BoundingBox(array.uv) IN RSub(box.max_v, box.min_v)

\* normalized twice, the first time with a rescale, and the second pass
\* met a u extent that is positive and below the epsilon
C12_Witness ==
    /\ pc = "normalized_twice"
    /\ uvs # NULL
    /\ Len(uvs.uv) >= 2
    /\ RLess(ZERO, ExtentU(uvs0))
    /\ RLess(ExtentU(uvs0), EPSILON)
    /\ ExtentV(uvs0) = ONE

(***************************************************************************)
(* Notions about a call of pack_uv_islands.                                *)
(***************************************************************************)
Packed == pc = "pack_returned" /\ layout # NULL /\ layout.packed

InUnitSquare(pt) ==
    /\ RLeq(ZERO, pt[1]) /\ RLeq(pt[1], ONE)
    /\ RLeq(ZERO, pt[2]) /\ RLeq(pt[2], ONE)

\* the vertices the triangles of island i reference, ascending
VerticesOfIsland(m, ids, i) ==
    Ascending(UNION {Range(m.triangles[f]) : f \in {g \in 1..m.num_triangles : ids[g] = i}},
              m.num_vertices)

\* island i is as normalize_uvs_to_unit_square leaves an island
IslandNormalized(m, ids, array, i) ==
    LET vs == VerticesOfIsland(m, ids, i)
        own == UvArray([k \in 1..Len(vs) |-> array.uv[vs[k] + 1]])
    IN normalize_uvs_to_unit_square(own) = own

(***************************************************************************)
(* C13: after pack_uv_islands on two or more islands with margin >= 0,     *)
(* every UV in [0,1]^2 beforehand and each island normalized on its own,   *)
(* every vertex has 0 <= u <= 1 and 0 <= v <= 1, the vertices of islands   *)
(* that were not placed and the shared vertices included.                  *)
(***************************************************************************)
C13_Precondition ==
    /\ Packed
    /\ ret.result.num_islands >= 2
    /\ RLeq(ZERO, ret.margin)
    /\ \A k \in 1..Len(uvs0.uv) : InUnitSquare(uvs0.uv[k])
    /\ \A i \in 0..(ret.result.num_islands - 1) :
          IslandNormalized(mesh, ret.result.face_island_ids, uvs0, i)

C13_PackedInsideUnitSquare ==
    C13_Precondition => \A k \in 1..Len(uvs.uv) : InUnitSquare(uvs.uv[k])

(***************************************************************************)
(* C14: after pack_uv_islands with margin >= 0, two islands placed on the  *)
(* same shelf have bounding boxes (of their own vertices, in the final     *)
(* UVs) that do not overlap, with a horizontal gap of at least the margin. *)
(***************************************************************************)
\* the final bounding box of the vertices pack_uv_islands gave to an island
FinalBox(isl) ==
    BoundingBox([k \in 1..Len(isl.vertex_indices) |-> uvs.uv[isl.vertex_indices[k] + 1]])

SameShelf(a, b) == a.placed /\ b.placed /\ a.shelf = b.shelf

\* a is left of b by at least gap
LeftOfBy(a, b, gap) == RLeq(RAdd(FinalBox(a).max_u, gap), FinalBox(b).min_u)

C14_SameShelfSeparated ==
    (Packed /\ RLeq(ZERO, ret.margin)) =>
        \A i, k \in 1..Len(layout.islands) :
            (i < k /\ SameShelf(layout.islands[i], layout.islands[k])) =>
                \/ LeftOfBy(layout.islands[i], layout.islands[k], ret.margin)
                \/ LeftOfBy(layout.islands[k], layout.islands[i], ret.margin)

(***************************************************************************)
(* C15: pack_uv_islands called with a result of 0 or 1 islands leaves      *)
(* every UV coordinate as it was, whatever the margin.                     *)
(***************************************************************************)
C15_SingleIslandUntouched ==
    (pc = "pack_returned" /\ ret.result # NULL) =>
        (ret.result.num_islands <= 1 => uvs = uvs0)

\* one island, with UVs that a packing pass would have moved, and a margin
C15_Witness ==
    /\ pc = "pack_returned"
    /\ mesh # NULL
    /\ uvs # NULL
    /\ ret.result # NULL
    /\ ret.result.num_islands = 1
    /\ ret.margin = Rat(1, 10)
    /\ \E k \in 1..Len(uvs.uv) : uvs.uv[k] = <<Rat(1, 2), ONE>>
    /\ uvs = uvs0

\* C16: a call with a null argument returns at its first test and changes
\* nothing: unwrap_mesh (null mesh, params or result_out) returns NULL and
\* the caller's result slot is not written; detect_seams (null mesh,
\* topology or count pointer) returns NULL and the count is not written;
\* lscm_parameterize (null mesh, null or empty face list) returns at the
\* argument check; pack_uv_islands (null mesh, result or UV array) leaves
\* the UV array as it was.
C16_NullArgsFailWithoutMutation ==
    /\ (pc = "unwrap_returned" /\ (mesh = NULL \/ params = NULL \/ result_out = NULL))
          => /\ ret = NULL
             /\ result_out \in {NULL, [written |-> FALSE]}
             /\ topo = NULL /\ calls = <<>> /\ uvs = uvs0
    /\ (pc = "seams_returned" /\ (mesh = NULL \/ ret.topo = NULL \/ ret.count = NULL))
          => /\ ret.seam_edges = NULL
             /\ ret.num_seams_out = ret.count
    /\ (pc = "lscm_returned"
          /\ (mesh = NULL \/ face_arg = NULL \/ face_arg.num_faces = 0))
          => lscm.status = "invalid_args"
    /\ (pc = "pack_returned" /\ (mesh = NULL \/ ret.result = NULL \/ uvs0 = NULL))
          => /\ uvs = uvs0
             /\ ~layout.packed

\* unwrap_mesh has returned on null params, with a mesh and a result slot given
C16_Witness ==
    /\ pc = "unwrap_returned"
    /\ mesh # NULL /\ mesh.num_triangles > 0
    /\ params = NULL
    /\ result_out = [written |-> FALSE]

\* unwrap_mesh has returned from a call with a mesh, params and a result slot
UnwrapDone ==
    pc = "unwrap_returned" /\ mesh # NULL /\ params # NULL /\ result_out # NULL

\* the islands that have a triangle with vertex v
IslandsAt(v) ==
    {face_island_ids[f + 1] : f \in {g \in Faces(mesh) :
        \E j \in 1..3 : mesh.triangles[g + 1][j] = v}}

\* step 4 left island i without UVs (skipped, or lscm_parameterize failed)
LeftUnparameterized(i) == ~calls[i + 1].parameterized

\* every vertex whose islands were all skipped or failed has UV (0,0)
UnparameterizedAtOrigin ==
    \A v \in 0..(mesh.num_vertices - 1) :
        (\A i \in IslandsAt(v) : LeftUnparameterized(i))
            => ret.uvs.uv[v + 1] = <<ZERO, ZERO>>

\* C17: a call of unwrap_mesh with non-null arguments returns a mesh with a
\* UV array and writes a result record; step 4 handles every island in
\* turn whatever happened to the earlier ones; and a vertex whose islands
\* were all skipped or failed has UV (0,0) in the returned mesh, packed or not.
C17_FailuresIsolated ==
    UnwrapDone =>
        /\ ret # NULL /\ ret.uvs # NULL
        /\ result_out.written /\ result_out.value # NULL
        /\ Len(calls) = num_islands
        /\ \A i \in 0..(num_islands - 1) : calls[i + 1].island_id = i
        /\ UnparameterizedAtOrigin

\* step 4 of unwrap_mesh has run
AfterStep4 == pc \in {"parameterized", "packed"} \/ UnwrapDone

\* the number of triangles of island i
FaceCount(i) == Cardinality({f \in Faces(mesh) : face_island_ids[f + 1] = i})

\* C18: whatever int min_island_faces is (zero and negative included),
\* step 4 skips an island exactly when it has fewer than min_island_faces
\* triangles; a skipped island is not given to lscm_parameterize, any
\* other island is.
C18_SkippedIffTooSmall ==
    AfterStep4 =>
        \A i \in 0..(num_islands - 1) :
            /\ calls[i + 1].skipped = (FaceCount(i) < params.min_island_faces)
            /\ calls[i + 1].skipped => ~calls[i + 1].parameterized

\* extract_islands has run inside unwrap_mesh
AfterExtraction == pc = "islands" \/ AfterStep4

\* the UV slots step 4 writes for island i: the vertices of its triangles
SlotsWritten(i) ==
    {mesh.triangles[f + 1][j] : f \in {g \in Faces(mesh) : face_island_ids[g + 1] = i},
                                j \in 1..3}

\* C19: for every mesh, the islands extract_islands makes from the seams of
\* detect_seams have no vertex in common, so that step 4 of unwrap_mesh
\* writes disjoint UV slots for different islands.
C19_IslandsPartitionVertices ==
    AfterExtraction =>
        \A i \in 0..(num_islands - 1) : \A k \in 0..(num_islands - 1) :
            i # k => SlotsWritten(i) \cap SlotsWritten(k) = {}

\* the thresholds test_unwrap is run with
StretchThresholds == {Rat(3, 2), Rat(2, 1)}

\* a call of unwrap_mesh with non-null arguments on a mesh that has triangles
ValidUnwrapInput == UnwrapDone /\ mesh.num_triangles > 0

\* C20: after unwrap_mesh on a valid input, the caller's result record holds
\* the island count and the per-face island ids that extract_islands
\* produced, avg_stretch = 1, max_stretch = 1 and coverage = 7/10; the
\* returned mesh has a UV array, and max_stretch is not above the
\* thresholds 1.5 and 2.0 of the tests.
C20_ResultRecord ==
    ValidUnwrapInput =>
        /\ result_out.written
        /\ result_out.value.num_islands = extract_islands(mesh, topo, seams).num_islands
        /\ result_out.value.face_island_ids
              = extract_islands(mesh, topo, seams).face_island_ids
        /\ result_out.value.avg_stretch = ONE
        /\ result_out.value.max_stretch = ONE
        /\ result_out.value.coverage = Rat(7, 10)
        /\ ret # NULL /\ ret.uvs # NULL
        /\ \A threshold \in StretchThresholds :
              RLeq(result_out.value.max_stretch, threshold)

\* unwrap_mesh has returned from a run that packed several islands, one of
\* them left without UVs
C20_Witness ==
    /\ ValidUnwrapInput
    /\ params.pack_islands
    /\ num_islands >= 2
    /\ layout # NULL /\ layout.packed
    /\ \E i \in 0..(num_islands - 1) : LeftUnparameterized(i)
    /\ result_out.written

\* the number of topology edges that have v as an endpoint
Incidence(t, v) == Cardinality({e \in EdgeIds(t) : v \in EndPoints(t, e)})

\* the priority of an edge: the sum of the incidences of its two endpoints
PriorityOf(t, e) == Incidence(t, t.edges[e + 1][1]) + Incidence(t, t.edges[e + 1][2])

\* the candidates of a mesh: the interior edges outside the spanning forest
\* (in a closed mesh every edge is interior)
LeftOut(m, t, selected) == NonTreeInterior(m, t) \ Range(selected)

\* C21: in the closed and in the open branch, no candidate that detect_seams
\* left out of the seam set has a strictly lower priority than a selected one.
C21_LowestPrioritiesSelected ==
    AfterSeams =>
        \A c \in LeftOut(mesh, topo, seams) : \A i \in 1..Len(seams) :
            PriorityOf(topo, c) >= PriorityOf(topo, seams[i])

\* a candidate of strictly higher priority than every seam was left out
C21_Witness ==
    /\ pc = "seams"
    /\ Len(seams) >= 2
    /\ \E c \in LeftOut(mesh, topo, seams) : \A i \in 1..Len(seams) :
          PriorityOf(topo, c) > PriorityOf(topo, seams[i])
    /\ \E c \in LeftOut(mesh, topo, seams) : \E i \in 1..Len(seams) :
          PriorityOf(topo, c) = PriorityOf(topo, seams[i])

\* two labellings of the faces give the same components
SameComponents(m, lab1, lab2) ==
    \A f, g \in Faces(m) : (lab1[f] = lab1[g]) <=> (lab2[f] = lab2[g])

\* C22: the tree edges of the breadth-first traversal of detect_seams are a
\* spanning forest of the dual graph: each is an interior edge, they close
\* no cycle (as many edges as faces minus the components they form), they
\* join every two faces of one dual-graph component, and their number is F
\* minus the number of dual-graph components.
C22_TreeEdgesAreSpanningForest ==
    AfterSeams =>
        LET tree == TreeEdges(mesh, topo)
            others == EdgeIds(topo) \ tree
        IN /\ tree \subseteq InteriorEdges(topo)
           /\ Cardinality(tree) = mesh.num_triangles - NumComponents(mesh, topo, others)
           /\ SameComponents(mesh, ComponentLabels(mesh, topo, others),
                             ComponentLabels(mesh, topo, {}))
           /\ Cardinality(tree) = mesh.num_triangles - NumComponents(mesh, topo, {})

\* a mesh of several components, with cycles in its dual graph
C22_Witness ==
    /\ pc = "seams"
    /\ NumComponents(mesh, topo, {}) >= 2
    /\ NumComponents(mesh, topo, {}) < mesh.num_triangles
    /\ TreeEdges(mesh, topo) # {}
    /\ TreeEdges(mesh, topo) # InteriorEdges(topo)

\* the boundary vertices of the listed triangles: the endpoints of the sides
\* that occur once among the sides of the listed triangles
BoundaryOfIsland(m, face_indices) ==
    LET slots == (1..face_indices.num_faces) \X (1..3)
        side(x) == {m.triangles[face_indices.data[x[1]] + 1][x[2]],
                    m.triangles[face_indices.data[x[1]] + 1][(x[2] % 3) + 1]}
    IN UNION {side(x) : x \in {y \in slots :
                 Cardinality({z \in slots : side(z) = side(y)}) = 1}}

\* the global vertex with local index i
GlobalOf(i) == sys.local_to_global[i + 1]

\* the distance between two global vertices
Apart(a, b) == Distance2(sys.position[a], sys.position[b])

\* C23: lscm_parameterize pins two distinct local vertices of [0, n): with 2
\* to 200 boundary vertices, two boundary vertices at the largest distance
\* found among boundary vertices; with more than 200, the first and the
\* middle boundary vertex; with fewer than 2, local vertex 0 and a vertex
\* farthest from it; the first is pinned to (0,0), the second to (1,0).
C23_PinnedPair ==
    pc = "lscm_system" =>
        LET boundary == BoundaryOfIsland(mesh, face_arg)
            num_boundary == Cardinality(boundary)
            g1 == GlobalOf(sys.pinned_idx1)
            g2 == GlobalOf(sys.pinned_idx2)
        IN /\ sys.pinned_idx1 \in 0..(sys.n - 1)
           /\ sys.pinned_idx2 \in 0..(sys.n - 1)
           /\ sys.pinned_idx1 # sys.pinned_idx2
           /\ (num_boundary >= 2 /\ num_boundary <= 200) =>
                 /\ g1 \in boundary /\ g2 \in boundary
                 /\ \A a \in boundary : \A c \in boundary : Apart(a, c) <= Apart(g1, g2)
           /\ num_boundary > 200 =>
                 /\ g1 \in boundary /\ g2 \in boundary
                 /\ Cardinality({a \in boundary : a < g1}) = 0
                 /\ Cardinality({a \in boundary : a < g2}) = num_boundary \div 2
           /\ num_boundary < 2 =>
                 /\ sys.pinned_idx1 = 0
                 /\ \A i \in 1..(sys.n - 1) : Apart(g1, GlobalOf(i)) <= Apart(g1, g2)
           /\ sys.pinned_vars = <<2 * sys.pinned_idx1, 2 * sys.pinned_idx1 + 1,
                                  2 * sys.pinned_idx2, 2 * sys.pinned_idx2 + 1>>
           /\ sys.pinned_vals = <<"0", "0", "1", "0">>

\* the farthest pair of a boundary is neither the first pair of the search
\* nor the default pair
C23_Witness ==
    /\ pc = "lscm_system"
    /\ Cardinality(BoundaryOfIsland(mesh, face_arg)) >= 4
    /\ sys.pinned_idx1 # 0
    /\ sys.pinned_idx2 # sys.n - 1
    /\ \E a \in BoundaryOfIsland(mesh, face_arg) :
          Apart(a, GlobalOf(sys.pinned_idx1)) < Apart(GlobalOf(sys.pinned_idx1),
                                                      GlobalOf(sys.pinned_idx2))

\* the positions of the placed islands in the islands vector
PlacedAt == {i \in 1..Len(layout.islands) : layout.islands[i].placed}

\* p and q are placed one after the other
Consecutive(p, q) == p < q /\ \A j \in PlacedAt : ~(p < j /\ j < q)

\* the largest height on the shelf of island p, among the islands up to p
TallestOnShelf(p) ==
    LET same == {j \in PlacedAt : j <= p /\ layout.islands[j].shelf = layout.islands[p].shelf}
        top == CHOOSE j \in same :
                  \A k \in same : RLeq(layout.islands[k].height, layout.islands[j].height)
    IN layout.islands[top].height

\* the x cursor after island p has been placed
CursorAfter(p) ==
    RAdd(RAdd(layout.islands[p].target_x, layout.islands[p].width), ret.margin)

\* C24: in the shelf loop with margin >= 0 the islands are placed in
\* non-increasing height order; the first goes to (0,0); each next one opens
\* a new shelf exactly when it would cross the unit width (the shelf then
\* holding an island), at x = 0 and at the previous shelf's y plus that
\* shelf's tallest height plus the margin, and otherwise continues the
\* shelf; every shelf holds an island, an island wider than 1 is at x = 0,
\* and islands of different shelves do not overlap vertically.
C24_ShelfLoop ==
    (Packed /\ RLeq(ZERO, ret.margin)) =>
        /\ \A p, q \in PlacedAt :
              p < q => RLeq(layout.islands[q].height, layout.islands[p].height)
        /\ \A q \in PlacedAt :
              (\A p \in PlacedAt : q <= p) =>
                  /\ layout.islands[q].target_x = ZERO
                  /\ layout.islands[q].target_y = ZERO
                  /\ layout.islands[q].shelf = 0
        /\ \A p, q \in PlacedAt :
              Consecutive(p, q) =>
                  IF RLess(ONE, RAdd(CursorAfter(p), layout.islands[q].width))
                  THEN /\ layout.islands[q].shelf = layout.islands[p].shelf + 1
                       /\ layout.islands[q].target_x = ZERO
                       /\ layout.islands[q].target_y =
                             RAdd(RAdd(layout.islands[p].target_y, TallestOnShelf(p)),
                                  ret.margin)
                  ELSE /\ layout.islands[q].shelf = layout.islands[p].shelf
                       /\ layout.islands[q].target_x = CursorAfter(p)
                       /\ layout.islands[q].target_y = layout.islands[p].target_y
        /\ \A q \in PlacedAt : \A k \in 0..layout.islands[q].shelf :
              \E p \in PlacedAt : layout.islands[p].shelf = k
        /\ \A q \in PlacedAt :
              RLess(ONE, layout.islands[q].width) => layout.islands[q].target_x = ZERO
        /\ \A p, q \in PlacedAt :
              layout.islands[p].shelf < layout.islands[q].shelf =>
                  RLeq(RAdd(layout.islands[p].target_y, layout.islands[p].height),
                       layout.islands[q].target_y)

\* three shelves, the first holding an island wider than 1 alone, another
\* holding two islands
C24_Witness ==
    /\ Packed
    /\ RLess(ZERO, ret.margin)
    /\ \E p, q, r \in PlacedAt :
          /\ layout.islands[p].shelf = 0 /\ RLess(ONE, layout.islands[p].width)
          /\ layout.islands[q].shelf = 1 /\ layout.islands[r].shelf = 1 /\ q # r

\* the least and the largest coordinate of an array on axis c (1 = u, 2 = v)
LeastCoord(array, c) ==
    LET k == CHOOSE i \in 1..Len(array.uv) :
                 \A j \in 1..Len(array.uv) : RLeq(array.uv[i][c], array.uv[j][c])
    IN array.uv[k][c]

LargestCoord(array, c) ==
    LET k == CHOOSE i \in 1..Len(array.uv) :
                 \A j \in 1..Len(array.uv) : RLeq(array.uv[j][c], array.uv[i][c])
    IN array.uv[k][c]

\* the extent on axis c, with 1 in the place of an extent below 1e-6
GuardedExtent(array, c) ==
    LET extent == RSub(LargestCoord(array, c), LeastCoord(array, c))
    IN IF RLess(extent, Rat(1, 1000000)) THEN ONE ELSE extent

\* normalize_uvs_to_unit_square has run on a non-empty array
Normalized ==
    /\ pc \in {"normalized", "normalized_twice"}
    /\ uvs0 # NULL
    /\ Len(uvs0.uv) > 0

\* C25: after normalize_uvs_to_unit_square on a non-empty array every
\* coordinate is in [0,1], the least u and the least v are 0, and every
\* point is the input point moved by the least corner and multiplied on
\* both axes by 1/max(eu, ev), eu and ev being the extents with 1 in the
\* place of an extent below 1e-6.
C25_NormalizedRange ==
    Normalized =>
        LET eu == GuardedExtent(uvs0, 1)
            ev == GuardedExtent(uvs0, 2)
            factor == RDiv(ONE, IF RLess(eu, ev) THEN ev ELSE eu)
        IN /\ Len(uvs.uv) = Len(uvs0.uv)
           /\ \A i \in 1..Len(uvs.uv) : InUnitSquare(uvs.uv[i])
           /\ LeastCoord(uvs, 1) = ZERO
           /\ LeastCoord(uvs, 2) = ZERO
           /\ \A i \in 1..Len(uvs.uv) :
                 /\ uvs.uv[i][1] = RMul(RSub(uvs0.uv[i][1], LeastCoord(uvs0, 1)), factor)
                 /\ uvs.uv[i][2] = RMul(RSub(uvs0.uv[i][2], LeastCoord(uvs0, 2)), factor)

\* an array with a u extent below the epsilon and a v extent above 1 has
\* been normalized: both axes shrink by the v extent
C25_Witness ==
    /\ pc = "normalized"
    /\ uvs0 # NULL
    /\ Len(uvs0.uv) >= 2
    /\ RLess(ZERO, ExtentU(uvs0))
    /\ RLess(ExtentU(uvs0), EPSILON)
    /\ RLess(ONE, ExtentV(uvs0))
    /\ LargestCoord(uvs, 2) = ONE
    /\ RLess(LargestCoord(uvs, 1), ExtentU(uvs0))

\* the corners of the triangles of island i, faces ascending, corners 0, 1, 2
CornersOfIsland(i) ==
    LET faces == Ascending({f \in Faces(mesh) : face_island_ids[f + 1] = i},
                           mesh.num_triangles)
    IN [j \in 1..(3 * Len(faces)) |->
           mesh.triangles[faces[((j - 1) \div 3) + 1] + 1][((j - 1) % 3) + 1]]

\* the number of distinct vertices met before the first corner of v
FirstEncounterIndex(corners, v) ==
    LET first == CHOOSE j \in 1..Len(corners) :
                     corners[j] = v /\ \A k \in 1..(j - 1) : corners[k] # v
    IN Cardinality({corners[k] : k \in 1..(first - 1)})

\* the last island with UVs among the islands of vertex v
LastWriter(v) ==
    CHOOSE i \in IslandsAt(v) :
        /\ calls[i + 1].parameterized
        /\ \A k \in IslandsAt(v) : calls[k + 1].parameterized => k <= i

\* C26: for every island, the map built in lscm_parameterize takes the
\* distinct vertices of the island's triangles one-to-one onto [0, n) in
\* the order of their first corner; the map rebuilt in unwrap_mesh is the
\* same map; and after step 4 a vertex holds the UV lscm_parameterize
\* returned at that vertex's local index (for the last island that wrote it).
C26_LocalMapsAgree ==
    pc = "parameterized" =>
        /\ \A i \in 0..(num_islands - 1) :
              LET island_faces == IslandFaces(mesh, face_island_ids, i)
                  corners == CornersOfIsland(i)
                  inner == LocalIndexing(mesh, FaceArray(island_faces))
                  rebuilt == IslandGlobalToLocal(mesh, island_faces)
                  n == Len(inner.local_to_global)
              IN /\ DOMAIN inner.global_to_local = Range(corners)
                 /\ n = Cardinality(Range(corners))
                 /\ \A v \in Range(corners) :
                       /\ inner.global_to_local[v] = FirstEncounterIndex(corners, v)
                       /\ inner.global_to_local[v] \in 0..(n - 1)
                       /\ inner.local_to_global[inner.global_to_local[v] + 1] = v
                 /\ \A v, w \in Range(corners) :
                       inner.global_to_local[v] = inner.global_to_local[w] => v = w
                 /\ rebuilt = inner.global_to_local
        /\ \A v \in 0..(mesh.num_vertices - 1) :
              (\E i \in IslandsAt(v) : calls[i + 1].parameterized) =>
                  uvs.uv[v + 1] =
                      calls[LastWriter(v) + 1].island_uvs.uv[
                          FirstEncounterIndex(CornersOfIsland(LastWriter(v)), v) + 1]

\* an island whose vertices are not met in ascending order has been
\* parameterized, with different UVs at its local vertices
C26_Witness ==
    /\ pc = "parameterized"
    /\ \E i \in 0..(num_islands - 1) :
          /\ calls[i + 1].parameterized
          /\ \E v, w \in Range(CornersOfIsland(i)) :
                /\ v < w
                /\ FirstEncounterIndex(CornersOfIsland(i), v)
                      > FirstEncounterIndex(CornersOfIsland(i), w)
                /\ uvs.uv[v + 1] # uvs.uv[w + 1]

\* the largest of a non-empty set of numbers
Largest(S) == CHOOSE x \in S : \A y \in S : RLeq(y, x)

\* 1 / max(overall packed width, overall packed height), 1 if nothing was placed
OverallScale ==
    IF PlacedAt = {} THEN ONE
    ELSE RDiv(ONE, max_float(
             Largest({RAdd(layout.islands[i].target_x, layout.islands[i].width) : i \in PlacedAt}),
             Largest({RAdd(layout.islands[i].target_y, layout.islands[i].height) : i \in PlacedAt})))

\* C27: after pack_uv_islands has packed, with s = 1 / max(overall packed
\* width, overall packed height) (1 when nothing was placed), every vertex
\* owned by a placed island is at s * (uv_before - island_min + target),
\* the island's minimum corner is at s * target, and the difference of the
\* UVs of two vertices of one island is s times what it was, on both axes.
C27_RigidMoveThenScale ==
    Packed =>
        /\ layout.scale = OverallScale
        /\ \A i \in 1..Len(layout.islands) :
              LET isl == layout.islands[i]
                  s == layout.scale
              IN /\ isl.placed =>
                       /\ \A v \in Range(isl.vertex_indices) :
                             /\ uvs.uv[v + 1][1] =
                                    RMul(s, RAdd(RSub(uvs0.uv[v + 1][1], isl.min_u), isl.target_x))
                             /\ uvs.uv[v + 1][2] =
                                    RMul(s, RAdd(RSub(uvs0.uv[v + 1][2], isl.min_v), isl.target_y))
                       /\ LET box == FinalBox(isl)
                          IN /\ box.min_u = RMul(s, isl.target_x)
                             /\ box.min_v = RMul(s, isl.target_y)
                 /\ \A v, w \in Range(isl.vertex_indices) : \A c \in 1..2 :
                       v < w =>
                       RSub(uvs.uv[v + 1][c], uvs.uv[w + 1][c]) =
                           RMul(s, RSub(uvs0.uv[v + 1][c], uvs0.uv[w + 1][c]))

\* an island was placed away from its old place, on a shelf above the
\* first, and the scale is not 1
C27_Witness ==
    /\ Packed
    /\ layout.scale # ONE
    /\ \E i \in PlacedAt :
          /\ RLess(ZERO, layout.islands[i].target_y)
          /\ layout.islands[i].min_u # ZERO
          /\ Len(layout.islands[i].vertex_indices) >= 2

\* unwrap_mesh, or the stages called one by one, has extracted the islands
IslandsExtracted ==
    /\ pc \in {"islands", "parameterized", "packed", "unwrap_returned"}
    /\ topo # NULL
    /\ Len(face_island_ids) = mesh.num_triangles
    /\ mesh.num_triangles > 0

\* the UV of vertex v as step 4 left it when there is one island
SingleIslandUv(v) ==
    IF calls[1].parameterized /\ v \in Range(CornersOfIsland(0))
    THEN calls[1].island_uvs.uv[FirstEncounterIndex(CornersOfIsland(0), v) + 1]
    ELSE uvs0.uv[v + 1]

\* C28: no seam of detect_seams is a tree edge, and the number of islands
\* extract_islands computes from these seams is the number of connected
\* components of the dual graph; when the dual graph is connected there is
\* one island, and after step 5 of unwrap_mesh every UV is as step 4 left it.
C28_SeamsKeepComponents ==
    IslandsExtracted =>
        /\ Range(seams) \cap TreeEdges(mesh, topo) = {}
        /\ num_islands = NumComponents(mesh, topo, {})
        /\ NumComponents(mesh, topo, {}) = 1 =>
              /\ num_islands = 1
              /\ (pc \in {"packed", "unwrap_returned"} /\ Len(calls) = 1) =>
                    /\ layout # NULL => ~layout.packed
                    /\ \A v \in 0..(mesh.num_vertices - 1) :
                          uvs.uv[v + 1] = SingleIslandUv(v)

\* unwrap_mesh was asked to pack a connected mesh that has seams and UVs
C28_Witness ==
    /\ pc = "unwrap_returned"
    /\ IslandsExtracted
    /\ Len(seams) >= 2
    /\ NumComponents(mesh, topo, {}) = 1
    /\ params.pack_islands
    /\ Len(calls) = 1
    /\ calls[1].parameterized

\* the UV step 4 of unwrap_mesh leaves at vertex v: that of the last island
\* with UVs among the islands of v, the calloc'ed zero if there is none
Step4Uv(v) ==
    IF \E i \in IslandsAt(v) : calls[i + 1].parameterized
    THEN calls[LastWriter(v) + 1].island_uvs.uv[
             FirstEncounterIndex(CornersOfIsland(LastWriter(v)), v) + 1]
    ELSE uvs0.uv[v + 1]

\* the vertices with triangles in several islands
SharedVertices ==
    {v \in 0..(mesh.num_vertices - 1) : Cardinality(IslandsAt(v)) >= 2}

\* the island of the lowest-index face that references v
OwnerId(v) ==
    face_island_ids[(CHOOSE f \in Faces(mesh) :
                        /\ v \in Range(mesh.triangles[f + 1])
                        /\ \A g \in Faces(mesh) :
                              v \in Range(mesh.triangles[g + 1]) => f <= g) + 1]

\* the packer's record of island id
IslandRecord(id) ==
    layout.islands[CHOOSE k \in 1..Len(layout.islands) : layout.islands[k].id = id]

\* the packer of unwrap_mesh has run and did pack
UnwrapPacked == pc = "packed" /\ layout # NULL /\ layout.packed

\* C29: a vertex with triangles in several islands has after step 4 the UV
\* of the last island with UVs; pack_uv_islands gives it to the island of
\* the lowest-index face that references it and to no other, counts it in
\* that island's bounding box, and translates it once, by that island's
\* offset (before the common scale).
C29_SharedVertexMovedOnce ==
    /\ pc = "parameterized" =>
          \A v \in SharedVertices : uvs.uv[v + 1] = Step4Uv(v)
    /\ UnwrapPacked =>
          \A v \in SharedVertices :
              LET owner == IslandRecord(OwnerId(v))
              IN /\ \A k \in 1..Len(layout.islands) :
                       v \in Range(layout.islands[k].vertex_indices)
                           <=> layout.islands[k].id = OwnerId(v)
                 /\ RLeq(owner.min_u, Step4Uv(v)[1]) /\ RLeq(Step4Uv(v)[1], owner.max_u)
                 /\ RLeq(owner.min_v, Step4Uv(v)[2]) /\ RLeq(Step4Uv(v)[2], owner.max_v)
                 /\ owner.placed
                 /\ uvs.uv[v + 1][1] =
                        RMul(layout.scale,
                             RAdd(Step4Uv(v)[1], RSub(owner.target_x, owner.min_u)))
                 /\ uvs.uv[v + 1][2] =
                        RMul(layout.scale,
                             RAdd(Step4Uv(v)[2], RSub(owner.target_y, owner.min_v)))

====
